---- MODULE Spec2Model ----
(***************************************************************************)
(* Model of bunim's SAT dependency resolver                                *)
(* (src/src/deps/satDependencyResolver.ts) and manifest parser.            *)
(*                                                                         *)
(* One SatDependencyResolver object is modelled with its fields            *)
(* (resolvedDeps, variableMap, versionMap, nextVarId, registry.packages).  *)
(* resolve() is an async method: every `await` is a suspension point, and  *)
(* the code between two awaits is one atomic step.  Two calls of resolve() *)
(* on the resolver are modelled (Runs); the external collaborators         *)
(* (registry load, packages directory, `nim -v` probe, GitHub lookup)      *)
(* answer the same way during a whole behaviour.                           *)
(*                                                                         *)
(* Version strings are kept as strings; Bun.semver.order is the rank       *)
(* table SemverRank.                                                       *)
(*                                                                         *)
(* NimbleParser.parseContent (src/src/parser/nimbleParser.ts) is modelled  *)
(* on texts that are sequences of characters: every regular expression of  *)
(* the parser is an operator on such sequences, and the loop over the      *)
(* lines takes one step per line (SpecParse).                              *)
(***************************************************************************)
EXTENDS Integers, Sequences, FiniteSets, TLC

\* ------------------------------------------------------------------------
\* Bounds
\* ------------------------------------------------------------------------

\* longest dependency list of a manifest handed to resolve()
MaxDeps == 2

\* most directories in the local packages directory
MaxDirs == 2

\* longest dependency list of a manifest when two resolve() calls overlap
MaxOverlapDeps == 1

\* ------------------------------------------------------------------------
\* Values
\* ------------------------------------------------------------------------

\* JavaScript null / undefined
Null == "null"

Runs == {1, 2}

\* the url written in a manifest requirement, and the one the registry knows
ExplicitUrl == "https://github.com/u/foo"
RegistryUrl == "https://github.com/nim-lang/foo"

\* Bun.semver.order(a, b) compares by semantic-version precedence; a
\* pre-release (a checksum suffix after '-') sorts below its release.
SemverRank(v) ==
  CASE v = "0.0.0"     -> 0
    [] v = "1.0.0-abc" -> 1
    [] v = "1.0.0"     -> 2
    [] v = "2.0.0-abc" -> 3
    [] v = "2.0.0"     -> 4
    [] OTHER           -> -1

SemverOrder(a, b) ==
  IF SemverRank(a) < SemverRank(b) THEN -1
  ELSE IF SemverRank(a) > SemverRank(b) THEN 1 ELSE 0

\* Bun.semver.satisfies(v, range) for a range that is a bare version (the
\* parser stores `name >= V` as version V, without the operator): a bare
\* version is an exact-match range.
SemverSatisfies(v, range) == SemverOrder(v, range) = 0

\* Bun.semver.satisfies(v, ">=" + range)
SemverSatisfiesGte(v, range) == SemverOrder(v, range) >= 0

\* NimbleDependency values as parseDependencies produces them from
\*   requires "nim >= 1.0.0", "nim >= 2.0.0", "foo", "foo >= 1.0.0",
\*            "foo >= 2.0.0", "`https://github.com/u/foo`", "bar >= 1.0.0"
NimbleDependency ==
  { [name |-> "nim", version |-> "1.0.0", url |-> ""],
    [name |-> "nim", version |-> "2.0.0", url |-> ""],
    [name |-> "foo", version |-> "*",     url |-> ""],
    [name |-> "foo", version |-> "1.0.0", url |-> ""],
    [name |-> "foo", version |-> "2.0.0", url |-> ""],
    [name |-> "foo", version |-> "*",     url |-> ExplicitUrl],
    [name |-> "bar", version |-> "1.0.0", url |-> ""] }

\* sequences over S of length at most n
RECURSIVE SeqUpTo(_, _)
SeqUpTo(S, n) ==
  IF n = 0 THEN { <<>> }
  ELSE LET shorter == SeqUpTo(S, n - 1)
       IN shorter \cup { Append(s, x) : s \in { t \in shorter : Len(t) = n - 1 }, x \in S }

\* NimblePackage.dependencies of the manifests handed to resolve()
Manifests == SeqUpTo(NimbleDependency, MaxDeps)

OverlapManifests == SeqUpTo(NimbleDependency, MaxOverlapDeps)

\* entries of the local packages directory: a directory named
\* `<prefix>-<rest>`, whose .nimble file declares package `nimble`
\* (Null when the directory holds no readable .nimble file)
DirEntry ==
  { [prefix |-> "foo",  rest |-> "1.0.0",     nimble |-> "foo"],
    [prefix |-> "foo",  rest |-> "2.0.0-abc", nimble |-> "foo"],
    [prefix |-> "repo", rest |-> "1.0.0-abc", nimble |-> "bar"] }

\* readdir() results: lists of distinct directories
DirListings ==
  { s \in SeqUpTo(DirEntry, MaxDirs) :
      \A i, j \in 1..Len(s) : i # j => s[i] # s[j] }

\* what `nim -v` can report (Null: the probe throws, times out or prints
\* no version)
NimProbes == {Null, "1.0.0"}

\* what the GitHub lookup of a package name can return
GithubNames == {Null, "bar"}

\* ------------------------------------------------------------------------
\* State
\* ------------------------------------------------------------------------

VARIABLES
  \* external collaborators (fixed during a behaviour)
  registryOk,        \* registry.loadRegistry() succeeds
  dirExists,         \* access(localPackagesDir) succeeds
  packagesDir,       \* readdir(localPackagesDir)
  nimProbe,          \* version printed by `nim -v`, or Null
  githubName,        \* fetchPackageNameFromGitHub(url), or Null
  \* fields of the SatDependencyResolver object
  resolvedDeps,      \* Map cacheKey -> ResolvedDependency
  variableMap,       \* Map `name@version` -> variable id
  versionMap,        \* Map variable id -> PackageVersion
  nextVarId,
  packages,          \* registry.packages: Map name -> url
  \* one resolve() call each
  pc,                \* where the call is suspended
  pkg,               \* pkg.dependencies
  allDeps,           \* Map name -> versions, in insertion order
  depIdx,            \* position of the current for-loop
  clauses,           \* clause list handed to satSolve
  numVars,
  solution,          \* the assignment satSolve returned
  solverCalls,       \* number of satSolve() invocations
  warnings,          \* number of Logger.warn() calls about the toolchain
  selectedVersions,  \* Map name -> version decoded from the solution
  pending,           \* locals of resolveDependency held across its awaits
  resolved,          \* the list resolve() builds and returns
  thrown,            \* the error resolve() rejected with, or Null
  lookups,           \* external lookups made by resolveDependency, in order
  \* one NimbleParser.parseContent(content) call
  content,           \* the manifest text, as its physical lines
  lines,             \* the lines left after comment stripping and filtering
  lineIdx,           \* position of `for (const line of lines)`
  ppc,               \* where parseContent is: idle, loop, assemble, returned
  inBlock,
  currentKey,        \* <<>> for null
  currentValue,
  currentFeature,    \* <<>> for null
  result,            \* Record<string, any>: Map key -> parsed value
  dependencyTexts,   \* the local `dependencies: string[]`
  features,          \* the local `features`, in key insertion order
  manifest,          \* the NimblePackage returned
  parseThrown,       \* parseContent threw
  \* one PackageDeduper.dedupe(dryRun) call
  pkgDir,            \* the entries of this.packagesDir, in readdir order
  listing,           \* the entries of this.packagesDir when dedupe was called
  dpc,               \* where dedupe is: idle, removing, done, failed
  dryRun,
  scanFailed,        \* readdir() or a stat() of scanPackages was rejected
  toKeep,            \* packagesToKeep
  toRemove,          \* packagesToRemove
  removeIdx,         \* position of `for (const pkg of packagesToRemove)`
  removeFailed,      \* some rm() was rejected
  \* calculateDirSha1Checksum(dir, skipDirs), called before and after an edit
  fs,                \* the files beneath dir
  skipDirs,
  cpc,               \* idle, calculated, edited, done
  firstFs,           \* the files when the first checksum was calculated
  firstSum,          \* the first checksum
  edited,            \* the path of the file written or removed in between
  secondSum,         \* the second checksum
  \* one `bunim install <package>` run
  graph,             \* the dependencies each package's manifest requires
  installedPkgs,     \* the packages with a directory in the packages directory
  stack,             \* the installGitHubPackage calls in progress, innermost last
  downloads,         \* how often each package was downloaded in this run
  ipc,               \* idle, running, done, failed
  \* one GitHubClient.downloadPackage(url) call
  useGit,            \* this.useGit
  repoUrl,           \* the url passed, <<>> before the call
  gpc,               \* idle, clone, lookup, archive, done, failed
  requests,          \* the urls fetched, in order
  apiResponse,       \* what the GitHub API answered, NoResponse before it did
  defaultBranch,     \* what getDefaultBranch returned, Null before it did
  clientWarnings,    \* number of Logger.warn() calls of getDefaultBranch
  downloaded,        \* the {path, checksum} returned, NoDownload before
  clientThrown       \* the error downloadPackage rejected with, or Null

envVars == <<registryOk, dirExists, packagesDir, nimProbe, githubName>>
objVars == <<resolvedDeps, variableMap, versionMap, nextVarId, packages>>
runVars == <<pc, pkg, allDeps, depIdx, clauses, numVars, solution, solverCalls, warnings,
             selectedVersions, pending, resolved, thrown, lookups>>
parseVars == <<content, lines, lineIdx, ppc, inBlock, currentKey, currentValue,
               currentFeature, result, dependencyTexts, features, manifest, parseThrown>>
dedupeVars == <<pkgDir, listing, dpc, dryRun, scanFailed, toKeep, toRemove, removeIdx,
                removeFailed>>
checksumVars == <<fs, skipDirs, cpc, firstFs, firstSum, edited, secondSum>>
installVars == <<graph, installedPkgs, stack, downloads, ipc>>
clientVars == <<useGit, repoUrl, gpc, requests, apiResponse, defaultBranch, clientWarnings,
                downloaded, clientThrown>>
toolVars == <<dedupeVars, checksumVars, installVars, clientVars>>
vars == <<envVars, objVars, runVars, parseVars, toolVars>>

\* everything but the state of one tool
exceptDedupe == <<envVars, objVars, runVars, parseVars, checksumVars, installVars, clientVars>>
exceptChecksum == <<envVars, objVars, runVars, parseVars, dedupeVars, installVars, clientVars>>
exceptInstall == <<envVars, objVars, runVars, parseVars, dedupeVars, checksumVars, clientVars>>
exceptClient == <<envVars, objVars, runVars, parseVars, dedupeVars, checksumVars, installVars>>

\* the empty Map
EmptyMap == [k \in {} |-> Null]

\* Map.set(k, v)
MapSet(m, k, v) == [x \in DOMAIN m \cup {k} |-> IF x = k THEN v ELSE m[x]]

\* Map.get(k), undefined as Null
MapGet(m, k) == IF k \in DOMAIN m THEN m[k] ELSE Null

\* the key `${name}@${version}`
Key(name, version) == <<name, version>>

\* ------------------------------------------------------------------------
\* Collaborators and candidate discovery
\* ------------------------------------------------------------------------

\* getNimVersion(): the probe's version, null on any error
GetNimVersion == nimProbe

\* the index of the highest element of a non-empty list, first one on ties:
\* versions.sort((a, b) => Bun.semver.order(b, a))[0]
RECURSIVE Highest(_)
Highest(versions) ==
  IF Len(versions) = 1 THEN versions[1]
  ELSE LET rest == Highest(Tail(versions))
       IN IF SemverOrder(versions[1], rest) >= 0 THEN versions[1] ELSE rest

\* [...new Set(versions)] sorted descending by Bun.semver.order
RECURSIVE SortDescending(_)
SortDescending(versions) ==
  IF Len(versions) = 0 THEN <<>>
  ELSE LET h == Highest(versions)
           others == SelectSeq(versions, LAMBDA v : v # h)
       IN <<h>> \o SortDescending(others)

\* dir.match(/^[^-]+-(.+?)(?:-[a-f0-9]+)?$/)[1]: the text after the first
\* '-' without a trailing -<hex> group
StripChecksum(rest) ==
  CASE rest = "1.0.0-abc" -> "1.0.0"
    [] rest = "2.0.0-abc" -> "2.0.0"
    [] OTHER              -> rest

\* the first directory (in readdir order) whose .nimble file names the package
RECURSIVE FindByNimbleName(_, _)
FindByNimbleName(dirs, packageName) ==
  IF Len(dirs) = 0 THEN Null
  ELSE IF dirs[1].nimble = packageName THEN StripChecksum(dirs[1].rest)
  ELSE FindByNimbleName(Tail(dirs), packageName)

\* getLocalPackageVersion(packageName)
GetLocalPackageVersion(packageName) ==
  IF packageName = "nim" THEN GetNimVersion
  ELSE IF ~dirExists THEN Null
  ELSE LET packageDirs == SelectSeq(packagesDir, LAMBDA d : d.prefix = packageName)
       IN IF Len(packageDirs) > 0
          THEN Highest([i \in 1..Len(packageDirs) |-> packageDirs[i].rest])
          ELSE FindByNimbleName(packagesDir, packageName)

\* getAvailableVersions without the placeholder version
GetAvailableVersionsNoPlaceholder(packageName) ==
  LET localVersion == GetLocalPackageVersion(packageName)
      versions == IF localVersion # Null THEN <<localVersion>> ELSE <<>>
  IN SortDescending(versions)

\* getAvailableVersions(packageName)
GetAvailableVersions(packageName) ==
  LET localVersion == GetLocalPackageVersion(packageName)
      versions == IF localVersion # Null THEN <<localVersion>> ELSE <<"0.0.0">>
  IN SortDescending(versions)

\* allDeps.has(name), allDeps.get(name) || []
AllDepsHas(deps, name) == \E i \in 1..Len(deps) : deps[i].name = name

AllDepsGet(deps, name) ==
  IF AllDepsHas(deps, name)
  THEN deps[CHOOSE i \in 1..Len(deps) : deps[i].name = name].versions
  ELSE <<>>

\* collectVersions(dep, allDeps, new Set()): the map after the call
CollectVersions(dep, deps) ==
  IF AllDepsHas(deps, dep.name) THEN deps
  ELSE Append(deps, [name |-> dep.name, versions |-> GetAvailableVersions(dep.name)])

\* registry.getGitHubUrl(name) over the loaded registry
GetGitHubUrl(pkgs, name) == MapGet(pkgs, name)

\* the registry content parsePackages() stores after a successful load
RegistryPackages == MapSet(EmptyMap, "foo", RegistryUrl)

\* ------------------------------------------------------------------------
\* Clause encoding
\* ------------------------------------------------------------------------

\* the inner loop of resolve(): one fresh variable per candidate version
RECURSIVE AllocateVariables(_, _, _)
AllocateVariables(depName, versions, st) ==
  IF Len(versions) = 0 THEN st
  ELSE LET varId == st.nextVarId
           version == versions[1]
       IN AllocateVariables(depName, Tail(versions),
            [st EXCEPT
               !.variableMap = MapSet(st.variableMap, Key(depName, version), varId),
               !.versionMap = MapSet(st.versionMap, varId,
                  [name |-> depName, version |-> version, variableId |-> varId]),
               !.nextVarId = varId + 1,
               !.versionVars = Append(st.versionVars, varId)])

\* the pairwise exclusions (-vi OR -vj), i < j
RECURSIVE PairwiseExclusions(_)
PairwiseExclusions(vs) ==
  IF Len(vs) <= 1 THEN <<>>
  ELSE [j \in 1..(Len(vs) - 1) |-> << -vs[1], -vs[j + 1] >>]
       \o PairwiseExclusions(Tail(vs))

\* encodeExactlyOne(vars)
EncodeExactlyOne(vs) == << vs >> \o PairwiseExclusions(vs)

\* the package clauses without the unit clause of a single candidate
PackageClausesNoUnit(versionVars) ==
  IF Len(versionVars) > 1 THEN EncodeExactlyOne(versionVars) ELSE <<>>

\* the clauses resolve() pushes for one package's variables
PackageClauses(versionVars) ==
  IF Len(versionVars) > 1 THEN EncodeExactlyOne(versionVars)
  ELSE IF Len(versionVars) = 1 THEN << << versionVars[1] >> >>
  ELSE <<>>

\* the first loop of resolve() over allDeps
RECURSIVE EncodePackages(_, _)
EncodePackages(deps, st) ==
  IF Len(deps) = 0 THEN st
  ELSE LET a == AllocateVariables(deps[1].name, deps[1].versions,
                                  [st EXCEPT !.versionVars = <<>>])
       IN EncodePackages(Tail(deps),
            [a EXCEPT !.clauses = a.clauses \o PackageClauses(a.versionVars)])

\* encodeDependencyConstraints with the toolchain requirement encoded as a
\* hard constraint: an unsatisfied one yields the empty clause
EncodeDependencyConstraintsHardNim(dep, deps, vmap) ==
  LET depName == dep.name
      range == dep.version
      versions == IF depName = "nim"
                  THEN (IF GetNimVersion # Null THEN <<GetNimVersion>> ELSE <<>>)
                  ELSE AllDepsGet(deps, depName)
      validVersions == SelectSeq(versions,
         LAMBDA v : range = "*" \/ range = "" \/
                    IF depName = "nim" THEN SemverSatisfiesGte(v, range)
                    ELSE SemverSatisfies(v, range))
      known == SelectSeq(validVersions, LAMBDA v : Key(depName, v) \in DOMAIN vmap)
      validVars == [i \in 1..Len(known) |-> vmap[Key(depName, known[i])]]
  IN [clauses |-> IF depName = "nim" \/ Len(validVars) > 0 THEN << validVars >> ELSE <<>>,
      warnings |-> 0]

\* encodeDependencyConstraints that pushes the clause of a requirement even
\* when no candidate matches: the empty clause
EncodeDependencyConstraintsStrict(dep, deps, vmap) ==
  LET depName == dep.name
      range == dep.version
      versions == AllDepsGet(deps, depName)
      validVersions == SelectSeq(versions,
         LAMBDA v : range = "*" \/ range = "" \/ SemverSatisfies(v, range))
      known == SelectSeq(validVersions, LAMBDA v : Key(depName, v) \in DOMAIN vmap)
      validVars == [i \in 1..Len(known) |-> vmap[Key(depName, known[i])]]
  IN [clauses |-> IF depName = "nim" THEN <<>> ELSE << validVars >>,
      warnings |-> 0]

\* encodeDependencyConstraints(dep, allDeps): the clauses returned and the
\* number of warnings logged
EncodeDependencyConstraints(dep, deps, vmap) ==
  LET depName == dep.name
      range == dep.version
  IN IF depName = "nim"
     THEN LET nimVersion == GetNimVersion
          IN [clauses |-> <<>>,
              warnings |-> IF /\ nimVersion # Null
                              /\ range # "*" /\ range # ""
                              /\ ~SemverSatisfiesGte(nimVersion, range)
                           THEN 1 ELSE 0]
     ELSE LET versions == AllDepsGet(deps, depName)
              validVersions == SelectSeq(versions,
                 LAMBDA v : range = "*" \/ range = "" \/ SemverSatisfies(v, range))
              known == SelectSeq(validVersions,
                 LAMBDA v : Key(depName, v) \in DOMAIN vmap)
              validVars == [i \in 1..Len(known) |-> vmap[Key(depName, known[i])]]
          IN [clauses |-> IF Len(validVars) > 0 THEN << validVars >> ELSE <<>>,
              warnings |-> 0]

\* the second loop of resolve() over pkg.dependencies
RECURSIVE EncodeConstraints(_, _, _)
EncodeConstraints(dependencies, deps, vmap) ==
  IF Len(dependencies) = 0 THEN [clauses |-> <<>>, warnings |-> 0]
  ELSE LET first == EncodeDependencyConstraints(dependencies[1], deps, vmap)
           others == EncodeConstraints(Tail(dependencies), deps, vmap)
       IN [clauses |-> first.clauses \o others.clauses,
           warnings |-> first.warnings + others.warnings]

\* a literal / a clause is true under an assignment
LiteralTrue(lit, a) == IF lit > 0 THEN a[lit] ELSE ~a[-lit]

ClauseTrue(c, a) == \E k \in 1..Len(c) : LiteralTrue(c[k], a)

\* satSolve(numVars, clauses): the assignments the solver may return; the
\* empty set stands for the result `false`
SatSolve(n, cls) ==
  { a \in [1..n -> BOOLEAN] : \A k \in 1..Len(cls) : ClauseTrue(cls[k], a) }

\* extractSolution(solution): the loop from variable i on
RECURSIVE ExtractFrom(_, _, _, _, _)
ExtractFrom(i, n, assignment, vermap, selected) ==
  IF i > n THEN selected
  ELSE ExtractFrom(i + 1, n, assignment, vermap,
         IF assignment[i] /\ i \in DOMAIN vermap
         THEN MapSet(selected, vermap[i].name, vermap[i].version)
         ELSE selected)

ExtractSolution(n, assignment, vermap) == ExtractFrom(1, n, assignment, vermap, EmptyMap)

\* lines 48-77 of resolve() from the object state objSt: variables,
\* clauses and warnings
Encode(dependencies, deps, objSt) ==
  LET enc == EncodePackages(deps,
                [variableMap |-> objSt.variableMap, versionMap |-> objSt.versionMap,
                 nextVarId |-> objSt.nextVarId, versionVars |-> <<>>, clauses |-> <<>>])
      con == EncodeConstraints(dependencies, deps, enc.variableMap)
  IN [variableMap |-> enc.variableMap, versionMap |-> enc.versionMap,
      nextVarId |-> enc.nextVarId,
      clauses |-> enc.clauses \o con.clauses,
      warnings |-> con.warnings,
      numVars |-> enc.nextVarId - 1]

\* ------------------------------------------------------------------------
\* NimbleParser (src/src/parser/nimbleParser.ts): text
\* ------------------------------------------------------------------------
\* A string is the sequence of its characters; a manifest text is the
\* sequence of its physical lines (content.split('\n')).

\* the character ` (a string cannot hold it)
Backtick == "backtick"

\* \s inside one line
IsSpace(c) == c \in {" ", "\t"}

\* \w
WordChars ==
  {"a", "b", "c", "d", "e", "f", "g", "h", "i", "j", "k", "l", "m", "n", "o", "p", "q",
   "r", "s", "t", "u", "v", "w", "x", "y", "z", "A", "B", "C", "D", "E", "F", "G", "H",
   "I", "J", "K", "L", "M", "N", "O", "P", "Q", "R", "S", "T", "U", "V", "W", "X", "Y",
   "Z", "0", "1", "2", "3", "4", "5", "6", "7", "8", "9", "_"}

IsWord(c) == c \in WordChars

\* the words the regular expressions of the parser look for
BeginWord == <<"b", "e", "g", "i", "n">>
EndWord == <<"e", "n", "d">>
RequiresWord == <<"r", "e", "q", "u", "i", "r", "e", "s">>
FeatureWord == <<"f", "e", "a", "t", "u", "r", "e">>
HttpsScheme == <<"h", "t", "t", "p", "s", ":", "/", "/">>
GitSuffix == <<".", "g", "i", "t">>
Star == <<"*">>

\* the least element of a non-empty set of positions
Min(S) == CHOOSE i \in S : \A j \in S : i <= j

Max(S) == CHOOSE i \in S : \A j \in S : i >= j

\* the first position >= i of s that holds no white space (Len(s) + 1 if none)
SkipSpaces(s, i) == Min({j \in i..Len(s) : ~IsSpace(s[j])} \cup {Len(s) + 1})

\* String.prototype.trim
Trim(s) ==
  LET solid == {i \in 1..Len(s) : ~IsSpace(s[i])}
  IN IF solid = {} THEN <<>> ELSE SubSeq(s, Min(solid), Max(solid))

\* String.prototype.substring(start, end): the arguments are clamped to the
\* string and swapped when start > end
Substring(s, start, end) ==
  LET clamp(n) == IF n < 0 THEN 0 ELSE IF n > Len(s) THEN Len(s) ELSE n
      a == clamp(start)
      b == clamp(end)
  IN IF a <= b THEN SubSeq(s, a + 1, b) ELSE SubSeq(s, b + 1, a)

\* pat occurs in s at position i
StartsWithAt(s, pat, i) ==
  /\ i >= 1
  /\ i + Len(pat) - 1 <= Len(s)
  /\ SubSeq(s, i, i + Len(pat) - 1) = pat

Occurrences(s, pat) == {i \in 1..Len(s) : StartsWithAt(s, pat, i)}

\* String.prototype.includes
Includes(s, pat) == Occurrences(s, pat) # {}

\* String.prototype.split(c) for a one-character separator
RECURSIVE Split(_, _)
Split(s, c) ==
  LET at == {i \in 1..Len(s) : s[i] = c}
  IN IF at = {} THEN <<s>>
     ELSE <<SubSeq(s, 1, Min(at) - 1)>> \o Split(SubSeq(s, Min(at) + 1, Len(s)), c)

\* Array.prototype.join(' ')
RECURSIVE JoinSpace(_)
JoinSpace(items) ==
  IF Len(items) = 0 THEN <<>>
  ELSE IF Len(items) = 1 THEN items[1]
  ELSE items[1] \o <<" ">> \o JoinSpace(Tail(items))

\* item.replace(/"/g, '')
RemoveQuotes(s) == SelectSeq(s, LAMBDA c : c # "\"")

\* no comment is cut from the line
StripCommentNever(line) == line

\* line.replace(/\s*#.*$/, ''): the line is cut at the white space before
\* its first '#'
StripComment(line) ==
  LET hashes == {i \in 1..Len(line) : line[i] = "#"}
  IN IF hashes = {} THEN line
     ELSE LET p == Min(hashes)
              start == Min({i \in 1..p : \A j \in i..(p - 1) : IsSpace(line[j])})
          IN SubSeq(line, 1, start - 1)

\* content.split('\n').map(strip comment).filter(line => line.trim() !== '')
FilterLines(text) ==
  SelectSeq([i \in 1..Len(text) |-> StripComment(text[i])], LAMBDA l : Trim(l) # <<>>)

\* A match of a regular expression is the sequence of its groups; <<>> is
\* null (no match).

\* line.trim().match(/requires\s+(.+)$/); the line is trimmed, so text
\* follows the white space
RequiresMatch(t) ==
  LET starts == {i \in Occurrences(t, RequiresWord) :
                   /\ i + 8 <= Len(t)
                   /\ IsSpace(t[i + 8])
                   /\ SkipSpaces(t, i + 8) <= Len(t)}
  IN IF starts = {} THEN <<>>
     ELSE <<SubSeq(t, SkipSpaces(t, Min(starts) + 8), Len(t))>>

\* part.match(/`([^`]+)`/) and part.match(/"([^"]+)"/): the first quote q
\* whose next quote q is not adjacent to it
QuotedMatch(part, q) ==
  LET at == {i \in 1..Len(part) : part[i] = q}
      next(i) == Min({j \in at : j > i})
      opens == {i \in at : (\E j \in at : j > i) /\ next(i) >= i + 2}
  IN IF opens = {} THEN <<>>
     ELSE <<SubSeq(part, Min(opens) + 1, next(Min(opens)) - 1)>>

\* (?:>=|>|<=|<|==|!=)\s*[^,]+ matches at position m of a comma-free part:
\* an operator followed by at least one character
OperatorAt(s, m) ==
  /\ m <= Len(s)
  /\ \/ s[m] \in {">", "<"} /\ m < Len(s)
     \/ s[m] \in {"=", "!"} /\ m + 1 < Len(s) /\ s[m + 1] = "="

\* part.match(/[`"][^`"]*[`"]\s*((?:>=|>|<=|<|==|!=)\s*[^,]+)/)
VersionMatch(part) ==
  LET at == {i \in 1..Len(part) : part[i] \in {Backtick, "\""}}
      next(i) == Min({j \in at : j > i})
      after(i) == SkipSpaces(part, next(i) + 1)
      starts == {i \in at : (\E j \in at : j > i) /\ OperatorAt(part, after(i))}
  IN IF starts = {} THEN <<>>
     ELSE <<SubSeq(part, after(Min(starts)), Len(part))>>

\* line.trim().match(/feature\s+"([^"]+)"\s*:/)
FeatureMatch(t) ==
  LET quotes == {i \in 1..Len(t) : t[i] = "\""}
      open(i) == SkipSpaces(t, i + 7)
      close(i) == Min({j \in quotes : j > open(i)})
      starts == {i \in Occurrences(t, FeatureWord) :
                   /\ i + 7 <= Len(t)
                   /\ IsSpace(t[i + 7])
                   /\ open(i) <= Len(t)
                   /\ t[open(i)] = "\""
                   /\ \E j \in quotes : j > open(i)
                   /\ close(i) >= open(i) + 2
                   /\ SkipSpaces(t, close(i) + 1) <= Len(t)
                   /\ t[SkipSpaces(t, close(i) + 1)] = ":"}
  IN IF starts = {} THEN <<>>
     ELSE <<SubSeq(t, open(Min(starts)) + 1, close(Min(starts)) - 1)>>

\* line.trim().match(/(\w+)\s*=\s*(.+)/): the first run of word characters
\* that white space and '=' follow; the line is trimmed, so the value is the
\* text after the white space behind '='
KeyMatch(t) ==
  LET runEnd(s) == Min({e \in s..Len(t) : e = Len(t) \/ ~IsWord(t[e + 1])})
      equals(s) == SkipSpaces(t, runEnd(s) + 1)
      value(s) == SkipSpaces(t, equals(s) + 1)
      starts == {s \in 1..Len(t) :
                   /\ IsWord(t[s])
                   /\ equals(s) <= Len(t)
                   /\ t[equals(s)] = "="
                   /\ value(s) <= Len(t)}
  IN IF starts = {} THEN <<>>
     ELSE <<SubSeq(t, Min(starts), runEnd(Min(starts))),
            SubSeq(t, value(Min(starts)), Len(t))>>

\* ------------------------------------------------------------------------
\* NimbleParser: values and dependencies
\* ------------------------------------------------------------------------

\* What a key of `result` or a field of the manifest holds: undefined, a
\* string, an array of strings, or an object (its entries in insertion
\* order, each value a string or undefined).
Undefined == [type |-> "undefined", val |-> <<>>]

StringValue(s) == [type |-> "string", val |-> s]

ArrayValue(items) == [type |-> "array", val |-> items]

ObjectValue(entries) == [type |-> "object", val |-> entries]

\* obj[key] = val on an object kept as its entries in insertion order
PutEntry(entries, key, val) ==
  IF \E i \in 1..Len(entries) : entries[i].key = key
  THEN [i \in 1..Len(entries) |->
          IF entries[i].key = key THEN [key |-> key, val |-> val] ELSE entries[i]]
  ELSE Append(entries, [key |-> key, val |-> val])

HasEntry(entries, key) == \E i \in 1..Len(entries) : entries[i].key = key

GetEntry(entries, key) ==
  entries[CHOOSE i \in 1..Len(entries) : entries[i].key = key].val

\* the items of an array literal, trimmed but with their quotes left in
ParseItemsKeepingQuotes(text) ==
  LET parts == Split(text, ",")
  IN [i \in 1..Len(parts) |-> Trim(parts[i])]

\* content.split(',').map(item => item.trim().replace(/"/g, ''))
ParseItems(text) ==
  LET parts == Split(text, ",")
  IN [i \in 1..Len(parts) |-> RemoveQuotes(Trim(parts[i]))]

\* parseValue, `{...}` branch: obj[key] = val for every comma-separated pair
RECURSIVE ParsePairs(_, _)
ParsePairs(pairs, entries) ==
  IF Len(pairs) = 0 THEN entries
  ELSE LET split == Split(Trim(pairs[1]), ":")
           fields == [i \in 1..Len(split) |-> RemoveQuotes(Trim(split[i]))]
           val == IF Len(fields) >= 2 THEN StringValue(fields[2]) ELSE Undefined
       IN ParsePairs(Tail(pairs), PutEntry(entries, fields[1], val))

\* parseValue(value)
ParseValue(value) ==
  LET n == Len(value)
      first == IF n = 0 THEN "" ELSE value[1]
      last == IF n = 0 THEN "" ELSE value[n]
  IN IF first = "\"" /\ last = "\"" THEN StringValue(Substring(value, 1, n - 1))
     ELSE IF StartsWithAt(value, <<"@", "[">>, 1)
     THEN LET inner == Trim(Substring(value, 2, n - 1))
          IN IF inner = <<>> THEN ArrayValue(<<>>) ELSE ArrayValue(ParseItems(inner))
     ELSE IF first = "[" /\ last = "]"
     THEN LET inner == Trim(Substring(value, 1, n - 1))
          IN IF inner = <<>> THEN ArrayValue(<<>>) ELSE ArrayValue(ParseItems(inner))
     ELSE IF first = "{" /\ last = "}"
     THEN LET inner == Trim(Substring(value, 1, n - 1))
          IN IF inner = <<>> THEN ObjectValue(<<>>)
             ELSE ObjectValue(ParsePairs(Split(inner, ","), <<>>))
     ELSE StringValue(value)

\* dep.trim().replace(/^"|"$/g, '').trim()
CleanDep(dep) ==
  LET t == Trim(dep)
      a == IF t # <<>> /\ t[1] = "\"" THEN Tail(t) ELSE t
      b == IF a # <<>> /\ a[Len(a)] = "\"" THEN SubSeq(a, 1, Len(a) - 1) ELSE a
  IN Trim(b)

\* cleanDep.match(...) with a greedy url group (.+ for .+?): the url runs
\* to the end of the text and no version is found
UrlMatchGreedy(cleanDep) ==
  LET n == Len(cleanDep)
      h == Min(Occurrences(cleanDep, HttpsScheme))
  IN IF ~Includes(cleanDep, HttpsScheme) \/ h + 8 > n THEN <<>>
     ELSE <<SubSeq(cleanDep, h, n), <<>> >>

\* cleanDep.match(/`?\s*(https:\/\/.+?)\s*`?\s*(?:>=\s+(.+))?$/): the url
\* is the shortest text from the first "https://" (one character at least
\* behind it) after which only white space, a backtick and `>= <version>`
\* are left
UrlMatch(cleanDep) ==
  LET n == Len(cleanDep)
      h == Min(Occurrences(cleanDep, HttpsScheme))
      tick(i) == LET a == SkipSpaces(cleanDep, i)
                 IN IF a <= n /\ cleanDep[a] = Backtick THEN a + 1 ELSE a
      gte(i) == SkipSpaces(cleanDep, tick(i))
      hasVersion(i) == /\ StartsWithAt(cleanDep, <<">", "=">>, gte(i))
                       /\ gte(i) + 2 <= n
                       /\ IsSpace(cleanDep[gte(i) + 2])
                       /\ SkipSpaces(cleanDep, gte(i) + 2) <= n
      tail(i) == gte(i) > n \/ hasVersion(i)
  IN IF ~Includes(cleanDep, HttpsScheme) \/ h + 8 > n THEN <<>>
     ELSE LET e == Min({k \in (h + 8)..n : tail(k + 1)})
          IN <<SubSeq(cleanDep, h, e),
               IF hasVersion(e + 1)
               THEN SubSeq(cleanDep, SkipSpaces(cleanDep, gte(e + 1) + 2), n)
               ELSE <<>> >>

\* url.split('/').pop()?.replace(/\.git$/, '') || ''
LastSegment(url) ==
  LET parts == Split(url, "/")
      seg == parts[Len(parts)]
  IN IF StartsWithAt(seg, GitSuffix, Len(seg) - 3)
     THEN SubSeq(seg, 1, Len(seg) - 4) ELSE seg

\* name.replace(/\[.*\]/, ''): from the first '[' that has a ']' behind it
\* to the last ']'
RemoveBracket(name) ==
  LET closes == {j \in 1..Len(name) : name[j] = "]"}
      opens == {i \in 1..Len(name) : name[i] = "[" /\ \E j \in closes : j > i}
  IN IF opens = {} THEN name
     ELSE SubSeq(name, 1, Min(opens) - 1) \o SubSeq(name, Max(closes) + 1, Len(name))

\* cleanDep.split(/\s*>=\s*/): no white space is needed around `>=`
SplitGteLoose(cleanDep) ==
  LET n == Len(cleanDep)
      gte(i) == SkipSpaces(cleanDep, i)
      isSep(i) == StartsWithAt(cleanDep, <<">", "=">>, gte(i))
      seps == {i \in 1..n : isSep(i)}
  IN IF seps = {} THEN <<cleanDep>>
     ELSE <<SubSeq(cleanDep, 1, Min(seps) - 1),
            SubSeq(cleanDep, SkipSpaces(cleanDep, gte(Min(seps)) + 2), n)>>

\* cleanDep.split(...) on the white space before `>=` only: the operator
\* stays in front of the version
SplitGteKeepingOperator(cleanDep) ==
  LET n == Len(cleanDep)
      gte(i) == SkipSpaces(cleanDep, i)
      isSep(i) == /\ IsSpace(cleanDep[i])
                  /\ StartsWithAt(cleanDep, <<">", "=">>, gte(i))
                  /\ gte(i) + 2 <= n
                  /\ IsSpace(cleanDep[gte(i) + 2])
      seps == {i \in 1..n : isSep(i)}
  IN IF seps = {} THEN <<cleanDep>>
     ELSE <<SubSeq(cleanDep, 1, Min(seps) - 1), SubSeq(cleanDep, gte(Min(seps)), n)>>

\* cleanDep.split(/\s+>=\s+/): the text before the first separator, and the
\* text between it and the second one
SplitGte(cleanDep) ==
  LET n == Len(cleanDep)
      gte(i) == SkipSpaces(cleanDep, i)
      isSep(i) == /\ IsSpace(cleanDep[i])
                  /\ StartsWithAt(cleanDep, <<">", "=">>, gte(i))
                  /\ gte(i) + 2 <= n
                  /\ IsSpace(cleanDep[gte(i) + 2])
      behind(i) == SkipSpaces(cleanDep, gte(i) + 2)
      seps == {i \in 1..n : isSep(i)}
  IN IF seps = {} THEN <<cleanDep>>
     ELSE LET s1 == Min(seps)
              later == {i \in seps : i >= behind(s1)}
              stop == IF later = {} THEN n ELSE Min(later) - 1
          IN <<SubSeq(cleanDep, 1, s1 - 1), SubSeq(cleanDep, behind(s1), stop)>>

\* the callback of deps.map in parseDependencies, for a string
ParseDependency(dep) ==
  LET cleanDep == CleanDep(dep)
  IN IF Includes(cleanDep, HttpsScheme)
     THEN LET urlMatch == UrlMatch(cleanDep)
          IN IF urlMatch = <<>> THEN [name |-> <<>>, version |-> Star, url |-> <<>>]
             ELSE [name |-> RemoveBracket(LastSegment(urlMatch[1])),
                   version |-> IF urlMatch[2] = <<>> THEN Star ELSE urlMatch[2],
                   url |-> urlMatch[1]]
     ELSE LET parts == SplitGte(cleanDep)
          IN [name |-> parts[1],
              version |-> IF Len(parts) < 2 \/ parts[2] = <<>> THEN Star ELSE parts[2],
              url |-> <<>>]

\* parseDependencies(deps) without `if (!deps || !Array.isArray(deps))
\* return []`: deps.map is not a function for a string or an object
ParseDependenciesUnguarded(deps) ==
  IF deps.type = "undefined" THEN [threw |-> FALSE, deps |-> <<>>]
  ELSE IF deps.type # "array" THEN [threw |-> TRUE, deps |-> <<>>]
  ELSE [threw |-> FALSE, deps |-> [i \in 1..Len(deps.val) |-> ParseDependency(deps.val[i])]]

\* parseDependencies(deps): every element of an array is a string here
\* (parseValue and the requires statements build arrays of strings), so the
\* `throw new Error('Invalid dependency format')` of the callback is not
\* taken
ParseDependencies(deps) ==
  IF deps.type # "array" THEN [threw |-> FALSE, deps |-> <<>>]
  ELSE [threw |-> FALSE, deps |-> [i \in 1..Len(deps.val) |-> ParseDependency(deps.val[i])]]

\* ------------------------------------------------------------------------
\* NimbleParser.parseContent
\* ------------------------------------------------------------------------

\* the keys of `result` that parseContent reads
NameKey == <<"n", "a", "m", "e">>
VersionKey == <<"v", "e", "r", "s", "i", "o", "n">>
AuthorKey == <<"a", "u", "t", "h", "o", "r">>
DescriptionKey == <<"d", "e", "s", "c", "r", "i", "p", "t", "i", "o", "n">>
LicenseKey == <<"l", "i", "c", "e", "n", "s", "e">>
SrcDirKey == <<"s", "r", "c", "D", "i", "r">>
SrcKey == <<"s", "r", "c">>
BinKey == <<"b", "i", "n">>
SkipDirsKey == <<"s", "k", "i", "p", "D", "i", "r", "s">>
DependenciesKey == <<"d", "e", "p", "e", "n", "d", "e", "n", "c", "i", "e", "s">>
FeaturesKey == <<"f", "e", "a", "t", "u", "r", "e", "s">>

\* result[key], undefined when the key was never assigned
Field(res, key) == IF key \in DOMAIN res THEN res[key] ELSE Undefined

\* JavaScript truthiness of a value
Truthy(v) == v.type \in {"array", "object"} \/ (v.type = "string" /\ v.val # <<>>)

\* the decimal digits of a natural number: the keys Object.entries gives to
\* the elements of an array and the characters of a string
RECURSIVE Decimal(_)
Decimal(n) ==
  LET digit == <<"0", "1", "2", "3", "4", "5", "6", "7", "8", "9">>[(n % 10) + 1]
  IN IF n < 10 THEN <<digit>> ELSE Append(Decimal(n \div 10), digit)

\* Object.entries(value)
Entries(v) ==
  IF v.type = "object" THEN v.val
  ELSE IF v.type = "array"
  THEN [i \in 1..Len(v.val) |-> [key |-> Decimal(i - 1), val |-> StringValue(v.val[i])]]
  ELSE [i \in 1..Len(v.val) |-> [key |-> Decimal(i - 1), val |-> StringValue(<<v.val[i]>>)]]

\* the body of `for (const part of depParts)`: the dependency text a part
\* contributes, as a list of zero or one text
ExtractDep(part) ==
  LET backtick == QuotedMatch(part, Backtick)
      quotedMatch == IF backtick # <<>> THEN backtick ELSE QuotedMatch(part, "\"")
      versionMatch == VersionMatch(part)
      quoted == Trim(quotedMatch[1])
      dep == IF versionMatch # <<>> THEN quoted \o <<" ">> \o Trim(versionMatch[1])
             ELSE quoted
  IN IF quotedMatch = <<>> THEN <<>>
     ELSE IF dep = <<>> THEN <<>> ELSE <<dep>>

\* the dependency texts of one requires statement, last part first
RECURSIVE ExtractDepsReversed(_)
ExtractDepsReversed(depParts) ==
  IF Len(depParts) = 0 THEN <<>>
  ELSE ExtractDepsReversed(Tail(depParts)) \o ExtractDep(depParts[1])

\* the dependency texts of one requires statement, in the order of its
\* comma-separated parts
RECURSIVE ExtractDeps(_)
ExtractDeps(depParts) ==
  IF Len(depParts) = 0 THEN <<>>
  ELSE ExtractDep(depParts[1]) \o ExtractDeps(Tail(depParts))

\* result[currentKey] = this.parseValue(currentValue.join(' ').trim()) when
\* a key is pending
Flush(res, key, value) ==
  IF key = <<>> THEN res ELSE MapSet(res, key, ParseValue(Trim(JoinSpace(value))))

\* the lines 138-168 of parseContent: dependencies and features are put
\* into result, the feature lists and the direct list are converted, and
\* the NimblePackage is built
Assemble(res, depTexts, featureTexts) ==
  LET withDeps == IF Len(depTexts) > 0
                  THEN MapSet(res, DependenciesKey, ArrayValue(depTexts)) ELSE res
      asObject == ObjectValue([i \in 1..Len(featureTexts) |->
                     [key |-> featureTexts[i].key, val |-> ArrayValue(featureTexts[i].val)]])
      final == IF Len(featureTexts) > 0 THEN MapSet(withDeps, FeaturesKey, asObject)
               ELSE withDeps
      entries == IF Truthy(Field(final, FeaturesKey))
                 THEN Entries(Field(final, FeaturesKey)) ELSE <<>>
      parsedFeatures == [i \in 1..Len(entries) |-> ParseDependencies(entries[i].val)]
      direct == ParseDependencies(IF Truthy(Field(final, DependenciesKey))
                                  THEN Field(final, DependenciesKey) ELSE ArrayValue(<<>>))
  IN [threw |-> direct.threw \/ \E i \in 1..Len(entries) : parsedFeatures[i].threw,
      package |->
        [name |-> Field(final, NameKey),
         version |-> Field(final, VersionKey),
         author |-> Field(final, AuthorKey),
         description |-> Field(final, DescriptionKey),
         license |-> Field(final, LicenseKey),
         srcDir |-> Field(final, SrcDirKey),
         src |-> Field(final, SrcKey),
         bin |-> Field(final, BinKey),
         skipDirs |-> Field(final, SkipDirsKey),
         dependencies |-> direct.deps,
         features |-> [i \in 1..Len(entries) |->
                         [key |-> entries[i].key, val |-> parsedFeatures[i].deps]]]]

\* no manifest has been returned
NoManifest == [returned |-> FALSE]

\* the parser before parseContent is called
ParseIdle ==
  /\ content = <<>>
  /\ lines = <<>>
  /\ lineIdx = 1
  /\ ppc = "idle"
  /\ inBlock = TRUE
  /\ currentKey = <<>>
  /\ currentValue = <<>>
  /\ currentFeature = <<>>
  /\ result = EmptyMap
  /\ dependencyTexts = <<>>
  /\ features = <<>>
  /\ manifest = NoManifest
  /\ parseThrown = FALSE

\* ------------------------------------------------------------------------
\* PackageDeduper
\* ------------------------------------------------------------------------

\* An entry of the packages directory. The installer names a directory
\* `${pkg.name}-${pkg.version}-${checksum}`; every part is kept as its
\* pieces between '-' characters, so the entry's name, split at '-', is the
\* three parts one after the other. Other entries (plain files, directories
\* of other tools) have their whole name in `name`.
PkgEntry(name, version, checksum, isDirectory) ==
  [name |-> name, version |-> version, checksum |-> checksum, isDirectory |-> isDirectory]

\* entry.split('-')
EntryName(e) == e.name \o e.version \o e.checksum

\* entry.match(/^([^-]+)-([^-]+)(?:-(.+))?$/) on the pieces of the entry's
\* name: <<name, version>>, or <<>> for null
DirMatch(pieces) ==
  IF /\ Len(pieces) >= 2
     /\ pieces[1] # ""
     /\ pieces[2] # ""
     /\ (Len(pieces) = 2 \/ Len(pieces) > 3 \/ pieces[3] # "")
  THEN <<pieces[1], pieces[2]>>
  ELSE <<>>

\* the PackageInfo of an entry; its path is the entry itself
PackageInfo(e) ==
  [name |-> DirMatch(EntryName(e))[1], version |-> DirMatch(EntryName(e))[2], path |-> e]

\* packages.get(name)!.push(info), the Map kept as its entries in insertion
\* order
PushInfo(groups, info) ==
  IF \E i \in 1..Len(groups) : groups[i].name = info.name
  THEN [i \in 1..Len(groups) |->
          IF groups[i].name = info.name
          THEN [name |-> info.name, versions |-> Append(groups[i].versions, info)]
          ELSE groups[i]]
  ELSE Append(groups, [name |-> info.name, versions |-> <<info>>])

\* the loop of scanPackages over the first `limit` entries: stat() of the
\* next entry is rejected, or the entries are exhausted
RECURSIVE ScanEntries(_, _, _)
ScanEntries(entries, limit, groups) ==
  IF Len(entries) = 0 \/ limit = 0 THEN groups
  ELSE LET e == entries[1]
           matched == e.isDirectory /\ DirMatch(EntryName(e)) # <<>>
       IN ScanEntries(Tail(entries), limit - 1,
                      IF matched THEN PushInfo(groups, PackageInfo(e)) ELSE groups)

\* scanPackages(): what was collected before an error is returned
ScanPackages(dir, limit) == ScanEntries(dir, limit, <<>>)

\* Bun.semver.order(a, b); what it does with a text that is no version is
\* the library's choice `invalid`: it throws, or it returns a number
OrderOf(a, b, invalid) ==
  IF SemverRank(a) < 0 \/ SemverRank(b) < 0 THEN invalid
  ELSE [threw |-> FALSE, order |-> SemverOrder(a, b)]

\* packages.reduce((highest, current) => order(current, highest) > 0 ? ...)
RECURSIVE ReduceHighest(_, _, _)
ReduceHighest(highest, rest, invalid) ==
  IF Len(rest) = 0 THEN [threw |-> FALSE, highest |-> highest]
  ELSE LET o == OrderOf(rest[1].version, highest.version, invalid)
       IN IF o.threw THEN [threw |-> TRUE, highest |-> highest]
          ELSE ReduceHighest(IF o.order > 0 THEN rest[1] ELSE highest, Tail(rest), invalid)

\* findHighestVersion(packages)
FindHighestVersion(infos, invalid) == ReduceHighest(infos[1], Tail(infos), invalid)

\* the loop of analyze() over the groups
RECURSIVE AnalyzeGroups(_, _, _)
AnalyzeGroups(groups, invalid, acc) ==
  IF Len(groups) = 0 \/ acc.threw THEN acc
  ELSE LET versions == groups[1].versions
           found == FindHighestVersion(versions, invalid)
           older == SelectSeq(versions, LAMBDA i : i # found.highest)
       IN IF Len(versions) <= 1
          THEN AnalyzeGroups(Tail(groups), invalid,
                 [acc EXCEPT !.packagesToKeep = @ \o versions])
          ELSE IF found.threw THEN [acc EXCEPT !.threw = TRUE]
          ELSE AnalyzeGroups(Tail(groups), invalid,
                 [acc EXCEPT !.packagesToKeep = Append(@, found.highest),
                             !.packagesToRemove = @ \o older])

\* analyze()
Analyze(dir, limit, invalid) ==
  AnalyzeGroups(ScanPackages(dir, limit), invalid,
                [threw |-> FALSE, packagesToKeep |-> <<>>, packagesToRemove |-> <<>>])

\* the deduper before dedupe is called
DedupeIdle ==
  /\ pkgDir = <<>>
  /\ listing = <<>>
  /\ dpc = "idle"
  /\ dryRun = FALSE
  /\ scanFailed = FALSE
  /\ toKeep = <<>>
  /\ toRemove = <<>>
  /\ removeIdx = 1
  /\ removeFailed = FALSE

\* dedupe(dry) without `if (dryRun) return`
DedupeIgnoringDryRun(dir, dry, limit, invalid) ==
  /\ dpc = "idle"
  /\ pkgDir' = dir
  /\ listing' = dir
  /\ dryRun' = dry
  /\ scanFailed' = (limit < Len(dir))
  /\ LET a == Analyze(dir, limit, invalid)
     IN /\ toKeep' = IF a.threw THEN <<>> ELSE a.packagesToKeep
        /\ toRemove' = IF a.threw THEN <<>> ELSE a.packagesToRemove
        /\ dpc' = IF a.threw THEN "failed"
                  ELSE IF Len(a.packagesToRemove) = 0 THEN "done"
                  ELSE "removing"
  /\ UNCHANGED <<removeIdx, removeFailed, exceptDedupe>>

\* dedupe(dry) is called on a packages directory holding `dir`: it analyzes
\* (and rejects when analyze does), returns when nothing is to be removed
\* or the run is a dry run, and otherwise starts removing
Dedupe(dir, dry, limit, invalid) ==
  /\ dpc = "idle"
  /\ pkgDir' = dir
  /\ listing' = dir
  /\ dryRun' = dry
  /\ scanFailed' = (limit < Len(dir))
  /\ LET a == Analyze(dir, limit, invalid)
     IN /\ toKeep' = IF a.threw THEN <<>> ELSE a.packagesToKeep
        /\ toRemove' = IF a.threw THEN <<>> ELSE a.packagesToRemove
        /\ dpc' = IF a.threw THEN "failed"
                  ELSE IF Len(a.packagesToRemove) = 0 \/ dry THEN "done"
                  ELSE "removing"
  /\ UNCHANGED <<removeIdx, removeFailed, exceptDedupe>>

\* the removal loop moves to its next package, or dedupe returns
NextRemoval ==
  /\ removeIdx' = removeIdx + 1
  /\ dpc' = IF removeIdx = Len(toRemove) THEN "done" ELSE "removing"

\* rm(pkg.path, {recursive: true, force: true}) removes the directory
Remove ==
  /\ dpc = "removing"
  /\ pkgDir' = SelectSeq(pkgDir, LAMBDA e : e # toRemove[removeIdx].path)
  /\ NextRemoval
  /\ UNCHANGED <<listing, dryRun, scanFailed, toKeep, toRemove, removeFailed, exceptDedupe>>

\* rm() is rejected: the error is logged and the loop goes on
RemoveFails ==
  /\ dpc = "removing"
  /\ removeFailed' = TRUE
  /\ NextRemoval
  /\ UNCHANGED <<pkgDir, listing, dryRun, scanFailed, toKeep, toRemove, exceptDedupe>>

\* ------------------------------------------------------------------------
\* calculateDirSha1Checksum
\* ------------------------------------------------------------------------

\* A directory tree is the set of its regular files and symbolic links,
\* each with its path from the root (the names of the directories above it,
\* then its own name) and its content (for a link: its target); the
\* directories are the proper prefixes of the paths.
FileNode(path, kind, data) == [path |-> path, kind |-> kind, content |-> data]

\* the files beneath the directory at dirPath
Beneath(files, dirPath) ==
  {f \in files : Len(f.path) > Len(dirPath) /\ SubSeq(f.path, 1, Len(dirPath)) = dirPath}

\* lstatSync(path).isDirectory()
IsDirectory(files, path) == Beneath(files, path) # {}

\* readdirSync(dir): the names of the entries of the directory at dirPath
Readdir(files, dirPath) == {f.path[Len(dirPath) + 1] : f \in Beneath(files, dirPath)}

\* the ignorePatterns of shouldIgnoreDirectory
IgnorePatterns ==
  {<<".", "g", "i", "t">>, <<".", "h", "g">>, <<".", "s", "v", "n">>,
   <<"n", "o", "d", "e", "_", "m", "o", "d", "u", "l", "e", "s">>,
   <<"b", "o", "w", "e", "r", "_", "c", "o", "m", "p", "o", "n", "e", "n", "t", "s">>,
   <<"_", "_", "p", "y", "c", "a", "c", "h", "e", "_", "_">>,
   <<".", "p", "y", "t", "e", "s", "t", "_", "c", "a", "c", "h", "e">>,
   <<".", "i", "d", "e", "a">>, <<".", "v", "s", "c", "o", "d", "e">>, <<".", "v", "s">>,
   <<"b", "u", "i", "l", "d">>, <<"d", "i", "s", "t">>, <<"t", "a", "r", "g", "e", "t">>,
   <<"t", "m", "p">>, <<"t", "e", "m", "p">>,
   <<".", "D", "S", "_", "S", "t", "o", "r", "e">>}

\* shouldIgnoreDirectory(dirName)
ShouldIgnoreDirectory(dirName) ==
  dirName \in IgnorePatterns \/ StartsWithAt(dirName, <<".">>, 1)

\* getPackageFileList that hands no skipDirs to its recursive call
RECURSIVE GetPackageFileListTopOnly(_, _, _)
GetPackageFileListTopOnly(files, dirPath, skip) ==
  UNION {LET path == Append(dirPath, entry)
         IN IF IsDirectory(files, path)
            THEN IF ShouldIgnoreDirectory(entry) \/ entry \in skip THEN {}
                 ELSE GetPackageFileListTopOnly(files, path, {})
            ELSE {path} :
           entry \in Readdir(files, dirPath)}

\* getPackageFileList(dir, basePath, skipDirs): the paths of the files and
\* links beneath dirPath that are in no ignored or skipped directory (the
\* list is sorted by its only caller, so its order is left out)
RECURSIVE GetPackageFileList(_, _, _)
GetPackageFileList(files, dirPath, skip) ==
  UNION {LET path == Append(dirPath, entry)
         IN IF IsDirectory(files, path)
            THEN IF ShouldIgnoreDirectory(entry) \/ entry \in skip THEN {}
                 ELSE GetPackageFileList(files, path, skip)
            ELSE {path} :
           entry \in Readdir(files, dirPath)}

\* join(basePath, entry): the names of a path with '/' between them
RECURSIVE PathText(_)
PathText(path) ==
  IF Len(path) = 0 THEN <<>>
  ELSE IF Len(path) = 1 THEN path[1]
  ELSE path[1] \o <<"/">> \o PathText(Tail(path))

\* the characters of the paths, by ascending UTF-16 code unit
CodeUnits ==
  <<".", "/", "0", "1", "2", "3", "4", "5", "6", "7", "8", "9", "D", "S", "_", "a", "b",
    "c", "d", "e", "f", "g", "h", "i", "j", "k", "l", "m", "n", "o", "p", "q", "r", "s",
    "t", "u", "v", "w", "x", "y", "z">>

CharCode(c) == CHOOSE i \in 1..Len(CodeUnits) : CodeUnits[i] = c

\* a < b as Array.prototype.sort() compares strings
RECURSIVE TextBefore(_, _)
TextBefore(a, b) ==
  IF Len(b) = 0 THEN FALSE
  ELSE IF Len(a) = 0 THEN TRUE
  ELSE IF a[1] # b[1] THEN CharCode(a[1]) < CharCode(b[1])
  ELSE TextBefore(Tail(a), Tail(b))

\* packageFiles.sort()
RECURSIVE SortPaths(_)
SortPaths(paths) ==
  IF paths = {} THEN <<>>
  ELSE LET first == CHOOSE p \in paths :
                      \A q \in paths \ {p} : TextBefore(PathText(p), PathText(q))
       IN <<first>> \o SortPaths(paths \ {first})

\* updateSha1Checksum(hasher, fileName, filePath): the bytes hashed so far,
\* then the file's relative path, then its content or its link target
UpdateSha1Checksum(hashed, files, path) ==
  LET file == CHOOSE f \in files : f.path = path
  IN hashed \o PathText(path) \o file.content

RECURSIVE HashFiles(_, _, _)
HashFiles(hashed, files, paths) ==
  IF Len(paths) = 0 THEN hashed
  ELSE HashFiles(UpdateSha1Checksum(hashed, files, paths[1]), files, Tail(paths))

\* calculateDirSha1Checksum(dir, skipDirs). The digest stands for the bytes
\* that were hashed: two digests are equal exactly when those bytes are.
CalculateDirSha1Checksum(files, skip) ==
  HashFiles(<<>>, files, SortPaths(GetPackageFileList(files, <<>>, skip)))

\* no checksum has been calculated
ChecksumIdle ==
  /\ fs = {}
  /\ skipDirs = {}
  /\ cpc = "idle"
  /\ firstFs = {}
  /\ firstSum = <<>>
  /\ edited = <<>>
  /\ secondSum = <<>>

\* no path of the tree is both a file and a directory, and no two files
\* share a path
WellFormed(files) ==
  \A f, g \in files :
    /\ f.path = g.path => f = g
    /\ ~(Len(g.path) > Len(f.path) /\ SubSeq(g.path, 1, Len(f.path)) = f.path)

\* calculateDirSha1Checksum(dir, skip) on a directory holding `files`
Calculate(files, skip) ==
  /\ cpc = "idle"
  /\ fs' = files
  /\ skipDirs' = skip
  /\ firstFs' = files
  /\ firstSum' = CalculateDirSha1Checksum(files, skip)
  /\ cpc' = "calculated"
  /\ UNCHANGED <<edited, secondSum, exceptChecksum>>

\* a file is created, or an existing file is overwritten
WriteFile(file) ==
  /\ cpc = "calculated"
  /\ file \notin fs
  /\ WellFormed({f \in fs : f.path # file.path} \cup {file})
  /\ fs' = {f \in fs : f.path # file.path} \cup {file}
  /\ edited' = file.path
  /\ cpc' = "edited"
  /\ UNCHANGED <<skipDirs, firstFs, firstSum, secondSum, exceptChecksum>>

\* a file is removed
RemoveFile(file) ==
  /\ cpc = "calculated"
  /\ file \in fs
  /\ fs' = fs \ {file}
  /\ edited' = file.path
  /\ cpc' = "edited"
  /\ UNCHANGED <<skipDirs, firstFs, firstSum, secondSum, exceptChecksum>>

\* calculateDirSha1Checksum(dir, skip) again, after the edit
Recalculate ==
  /\ cpc = "edited"
  /\ secondSum' = CalculateDirSha1Checksum(fs, skipDirs)
  /\ cpc' = "done"
  /\ UNCHANGED <<fs, skipDirs, firstFs, firstSum, edited, exceptChecksum>>

\* ------------------------------------------------------------------------
\* install: installGitHubPackage and installDependency
\* ------------------------------------------------------------------------

\* the packages of the registry
Pkgs == {"a", "b", "c"}

\* the order in which a manifest lists the packages it requires
PkgOrder == <<"a", "b", "c">>

\* pkg.dependencies of a manifest that requires the packages `required`
DependenciesOf(required) == SelectSeq(PkgOrder, LAMBDA p : p \in required)

\* resolver.resolve(pkg): one entry for every dependency, `installed`
\* telling whether getLocalPackageVersion finds a directory at that moment
ResolveInstalled(dependencies, dirs) ==
  [i \in 1..Len(dependencies) |->
     [name |-> dependencies[i], installed |-> dependencies[i] \in dirs]]

\* an installGitHubPackage(url) call: the package, where the call is
\* (download, loop, thrown), the list resolve() returned and the position
\* of `for (const dep of resolved)`
Frame(p) == [pkg |-> p, phase |-> "download", resolved |-> <<>>, idx |-> 1]

\* the call stack without its innermost call
Pop(st) == SubSeq(st, 1, Len(st) - 1)

\* the innermost call replaced
SetTop(st, frame) == [st EXCEPT ![Len(st)] = frame]

\* the caller's loop goes on behind the dependency it installed
Resume(st) ==
  IF Len(st) = 0 THEN st ELSE SetTop(st, [st[Len(st)] EXCEPT !.idx = @ + 1])

\* the caller's await rejects: installDependency hands on the error of an
\* explicit GitHub url
Reject(st) ==
  IF Len(st) = 0 THEN st ELSE SetTop(st, [st[Len(st)] EXCEPT !.phase = "thrown"])

\* deepest recursion followed
MaxDepth == 4

\* no install is running
InstallIdle ==
  /\ graph = [p \in Pkgs |-> {}]
  /\ installedPkgs = {}
  /\ stack = <<>>
  /\ downloads = [p \in Pkgs |-> 0]
  /\ ipc = "idle"

\* install([root]): installGitHubPackage is called for the package
Install(root, manifests, dirs) ==
  /\ ipc = "idle"
  /\ graph' = manifests
  /\ installedPkgs' = dirs
  /\ stack' = <<Frame(root)>>
  /\ ipc' = "running"
  /\ UNCHANGED <<downloads, exceptInstall>>

\* the innermost call
Top == stack[Len(stack)]

\* downloadPackage succeeds, the manifest is parsed and its dependencies
\* are resolved
Download ==
  /\ ipc = "running"
  /\ Top.phase = "download"
  /\ downloads' = [downloads EXCEPT ![Top.pkg] = @ + 1]
  /\ stack' = SetTop(stack, [Top EXCEPT
                 !.phase = "loop",
                 !.resolved = ResolveInstalled(DependenciesOf(graph[Top.pkg]), installedPkgs)])
  /\ UNCHANGED <<graph, installedPkgs, ipc, exceptInstall>>

\* downloadPackage rejects: the call logs the error and throws it again
DownloadFails ==
  /\ ipc = "running"
  /\ Top.phase = "download"
  /\ stack' = SetTop(stack, [Top EXCEPT !.phase = "thrown"])
  /\ UNCHANGED <<graph, installedPkgs, downloads, ipc, exceptInstall>>

\* a call that threw ends: install() logs the error of the outermost call;
\* installDependency catches the error of a registry package and hands on
\* the error of an explicit url
Throw(caught) ==
  /\ ipc = "running"
  /\ Top.phase = "thrown"
  /\ stack' = IF caught THEN Resume(Pop(stack)) ELSE Reject(Pop(stack))
  /\ ipc' = IF Len(stack) = 1 THEN "failed" ELSE "running"
  /\ UNCHANGED <<graph, installedPkgs, downloads, exceptInstall>>

\* if (!dep.installed) await this.installDependency(dep): the dependency's
\* own installGitHubPackage call starts
InstallDependency ==
  /\ ipc = "running"
  /\ Top.phase = "loop"
  /\ Top.idx <= Len(Top.resolved)
  /\ ~Top.resolved[Top.idx].installed
  /\ Len(stack) < MaxDepth
  /\ stack' = Append(stack, Frame(Top.resolved[Top.idx].name))
  /\ UNCHANGED <<graph, installedPkgs, downloads, ipc, exceptInstall>>

\* a dependency that resolve() reported as installed is passed over
SkipInstalled ==
  /\ ipc = "running"
  /\ Top.phase = "loop"
  /\ Top.idx <= Len(Top.resolved)
  /\ Top.resolved[Top.idx].installed
  /\ stack' = SetTop(stack, [Top EXCEPT !.idx = @ + 1])
  /\ UNCHANGED <<graph, installedPkgs, downloads, ipc, exceptInstall>>

\* behind the loop the package's directory is made and filled, and the
\* call returns
FinishInstall ==
  /\ ipc = "running"
  /\ Top.phase = "loop"
  /\ Top.idx > Len(Top.resolved)
  /\ installedPkgs' = installedPkgs \cup {Top.pkg}
  /\ stack' = Resume(Pop(stack))
  /\ ipc' = IF Len(stack) = 1 THEN "done" ELSE "running"
  /\ UNCHANGED <<graph, downloads, exceptInstall>>

\* ------------------------------------------------------------------------
\* resolve()
\* ------------------------------------------------------------------------

NoPending == [url |-> "", fetch |-> FALSE]

Finished(r) == pc[r] \in {"done", "failed"}

\* url.includes('github.com')
IsGitHubUrl(url) == url \in {ExplicitUrl, RegistryUrl}

\* resolveDependency: dep.url || this.getGitHubUrl(dep.name) || ''
ResolvedUrl(dep, pkgs) ==
  LET registryUrl == GetGitHubUrl(pkgs, dep.name)
  IN IF dep.url # "" THEN dep.url
     ELSE IF registryUrl # Null THEN registryUrl ELSE ""

\* resolveDependency: hasExplicitUrl && url && url.includes('github.com')
FetchesName(dep, url) == dep.url # "" /\ url # "" /\ IsGitHubUrl(url)

\* resolveDependency after the cache check: the ResolvedDependency built
\* from the url, the fetched package name, the local-presence probe and the
\* decoded selection
ResolvedEntry(dep, url, fetch, selectedMap) ==
  LET fetchedName == IF fetch THEN githubName ELSE Null
      actualPackageName == IF fetchedName # Null THEN fetchedName ELSE dep.name
      installedVersion == GetLocalPackageVersion(actualPackageName)
      selected == MapGet(selectedMap, dep.name)
      selectedVersion == IF selected # Null THEN selected ELSE dep.version
  IN [name |-> actualPackageName, version |-> selectedVersion, url |-> url,
      dependencies |-> <<>>, installed |-> installedVersion # Null]

\* ------------------------------------------------------------------------
\* GitHubClient (src/test/parser.test.ts, from line 51 on)
\* ------------------------------------------------------------------------
\* A url is GitHubUrl(owner, repo) or a url of another host. A response of
\* fetch() is a record: rejected (the promise was rejected: no answer), the
\* HTTP status, and what the body holds. The body of an API answer is the
\* default_branch of its JSON object, "" when the object has none, Null when
\* the body is no JSON. An archive is the branch in the name of its top
\* directory `<repo>-<branch>`, the files beneath it and the skipDirs of
\* its manifest.

GitHubUrl(owner, repo) == <<"https://github.com", owner, repo>>
OtherUrl == <<"https://gitlab.com", "u", "foo">>

\* url.match(/github\.com\/([^\/]+)\/([^\/\[]+)/): whether the url matches,
\* and the owner and repo it names
MatchGitHub(url) ==
  IF Len(url) = 3 /\ url[1] = "https://github.com"
  THEN [matched |-> TRUE, owner |-> url[2], repo |-> url[3]]
  ELSE [matched |-> FALSE, owner |-> "", repo |-> ""]

\* `https://api.github.com/repos/${owner}/${repo}`
ApiUrl(owner, repo) == <<"https://api.github.com/repos", owner, repo>>

\* `https://github.com/${owner}/${repo}/archive/refs/heads/${defaultBranch}.tar.gz`
ArchiveUrl(owner, repo, branchName) ==
  <<"https://github.com", owner, repo, "archive/refs/heads", branchName, ".tar.gz">>

\* response.ok
ResponseOk(response) == response.status >= 200 /\ response.status <= 299

\* the outcome of a block: a value returned or an error thrown, and the
\* number of warnings logged
Returned(value, warned) == [value |-> value, error |-> Null, warned |-> warned]
Raised(error) == [value |-> Null, error |-> error, warned |-> 0]

\* the try block of getDefaultBranch, given what fetch(apiUrl) yields
TryDefaultBranch(response) ==
  IF response.rejected THEN Raised("FetchError")
  ELSE IF ResponseOk(response)
  THEN IF response.body = Null THEN Raised("JsonError")
       ELSE Returned(IF response.body # "" THEN response.body ELSE "main", 0)
  ELSE IF response.status = 403 THEN Raised("RateLimitError")
  ELSE Returned("main", 1)

\* getDefaultBranch(owner, repo): the try block, and the catch block that
\* takes every error thrown in it
GetDefaultBranch(response) ==
  LET tried == TryDefaultBranch(response)
  IN IF tried.error # Null THEN Returned("main", 1) ELSE tried

\* no answer yet, nothing returned yet
NoResponse == [rejected |-> FALSE, status |-> 0, body |-> Null]
NoDownload == [path |-> <<>>, checksum |-> <<>>]

\* no download has been started
ClientIdle ==
  /\ useGit = FALSE
  /\ repoUrl = <<>>
  /\ gpc = "idle"
  /\ requests = <<>>
  /\ apiResponse = NoResponse
  /\ defaultBranch = Null
  /\ clientWarnings = 0
  /\ downloaded = NoDownload
  /\ clientThrown = Null

\* new GitHubClient(git).downloadPackage(url) up to its first await on the
\* network: git.clone, or downloadArchive up to fetch(apiUrl)
DownloadPackage(url, git) ==
  /\ gpc = "idle"
  /\ useGit' = git
  /\ repoUrl' = url
  /\ LET match == MatchGitHub(url)
     IN IF git
        THEN /\ gpc' = "clone"
             /\ UNCHANGED <<requests, clientThrown>>
        ELSE IF ~match.matched
        THEN /\ gpc' = "failed"
             /\ clientThrown' = "InvalidUrlError"
             /\ UNCHANGED requests
        ELSE /\ gpc' = "lookup"
             /\ requests' = <<ApiUrl(match.owner, match.repo)>>
             /\ UNCHANGED clientThrown
  /\ UNCHANGED <<apiResponse, defaultBranch, clientWarnings, downloaded, exceptClient>>

\* cloneWithGit after git.clone(url, tempDir): the checksum of the clone
\* with the skipDirs of its manifest, or the rejection of git.clone
CloneWithGit(cloned) ==
  /\ gpc = "clone"
  /\ IF cloned.rejected
     THEN /\ gpc' = "failed"
          /\ clientThrown' = "GitError"
          /\ UNCHANGED downloaded
     ELSE /\ gpc' = "done"
          /\ downloaded' = [path |-> <<"tempDir">>,
                            checksum |-> CalculateDirSha1Checksum(cloned.files, cloned.skipDirs)]
          /\ UNCHANGED clientThrown
  /\ UNCHANGED <<useGit, repoUrl, requests, apiResponse, defaultBranch, clientWarnings,
                 exceptClient>>

\* downloadArchive from the answer to fetch(apiUrl) to fetch(archiveUrl):
\* getDefaultBranch finishes; an error it throws leaves downloadArchive,
\* else the archive of the branch is requested
DefaultBranchAnswered(response) ==
  /\ gpc = "lookup"
  /\ apiResponse' = response
  /\ LET match == MatchGitHub(repoUrl)
         outcome == GetDefaultBranch(response)
     IN /\ clientWarnings' = clientWarnings + outcome.warned
        /\ IF outcome.error # Null
           THEN /\ gpc' = "failed"
                /\ clientThrown' = outcome.error
                /\ UNCHANGED <<defaultBranch, requests>>
           ELSE /\ gpc' = "archive"
                /\ defaultBranch' = outcome.value
                /\ requests' = Append(requests,
                                      ArchiveUrl(match.owner, match.repo, outcome.value))
                /\ UNCHANGED clientThrown
  /\ UNCHANGED <<useGit, repoUrl, downloaded, exceptClient>>

\* downloadArchive from the answer to fetch(archiveUrl) on: the archive is
\* extracted, its top directory `<repo>-<defaultBranch>` is looked for and
\* its checksum is calculated with the skipDirs of its manifest
ArchiveAnswered(response) ==
  /\ gpc = "archive"
  /\ LET match == MatchGitHub(repoUrl)
     IN IF response.rejected
        THEN /\ gpc' = "failed"
             /\ clientThrown' = "FetchError"
             /\ UNCHANGED downloaded
        ELSE IF ~ResponseOk(response)
        THEN /\ gpc' = "failed"
             /\ clientThrown' = "DownloadError"
             /\ UNCHANGED downloaded
        ELSE IF response.body.top # defaultBranch
        THEN /\ gpc' = "failed"
             /\ clientThrown' = "NoExtractedDirectoryError"
             /\ UNCHANGED downloaded
        ELSE /\ gpc' = "done"
             /\ downloaded' = [path |-> <<"tempDir", match.repo, defaultBranch>>,
                               checksum |-> CalculateDirSha1Checksum(response.body.files,
                                                                     response.body.skipDirs)]
             /\ UNCHANGED clientThrown
  /\ UNCHANGED <<useGit, repoUrl, requests, apiResponse, defaultBranch, clientWarnings,
                 exceptClient>>

Init ==
  /\ registryOk \in BOOLEAN
  /\ dirExists \in BOOLEAN
  /\ packagesDir \in DirListings
  /\ (~dirExists => packagesDir = <<>>)
  /\ nimProbe \in NimProbes
  /\ githubName \in GithubNames
  /\ resolvedDeps = EmptyMap
  /\ variableMap = EmptyMap
  /\ versionMap = EmptyMap
  /\ nextVarId = 1
  /\ packages = EmptyMap
  /\ pc = [r \in Runs |-> "idle"]
  /\ pkg = [r \in Runs |-> <<>>]
  /\ allDeps = [r \in Runs |-> <<>>]
  /\ depIdx = [r \in Runs |-> 1]
  /\ clauses = [r \in Runs |-> <<>>]
  /\ numVars = [r \in Runs |-> 0]
  /\ solution = [r \in Runs |-> <<>>]
  /\ solverCalls = [r \in Runs |-> 0]
  /\ warnings = [r \in Runs |-> 0]
  /\ selectedVersions = [r \in Runs |-> EmptyMap]
  /\ pending = [r \in Runs |-> NoPending]
  /\ resolved = [r \in Runs |-> <<>>]
  /\ thrown = [r \in Runs |-> Null]
  /\ lookups = [r \in Runs |-> <<>>]
  /\ ParseIdle
  /\ DedupeIdle
  /\ ChecksumIdle
  /\ InstallIdle
  /\ ClientIdle

\* resolve(pkg) without `this.nextVarId = 1`
CallKeepingCounter(r, dependencies) ==
  /\ pc[r] = "idle"
  /\ resolvedDeps' = EmptyMap
  /\ variableMap' = EmptyMap
  /\ versionMap' = EmptyMap
  /\ pkg' = [pkg EXCEPT ![r] = dependencies]
  /\ pc' = [pc EXCEPT ![r] = "loadRegistry"]
  /\ UNCHANGED <<parseVars, toolVars, envVars, nextVarId, packages, allDeps, depIdx, clauses, numVars,
                 solution, solverCalls, warnings, selectedVersions, pending, resolved,
                 thrown, lookups>>

\* resolve(pkg) without `this.resolvedDeps.clear()`
CallKeepingCache(r, dependencies) ==
  /\ pc[r] = "idle"
  /\ variableMap' = EmptyMap
  /\ versionMap' = EmptyMap
  /\ nextVarId' = 1
  /\ pkg' = [pkg EXCEPT ![r] = dependencies]
  /\ pc' = [pc EXCEPT ![r] = "loadRegistry"]
  /\ UNCHANGED <<parseVars, toolVars, envVars, resolvedDeps, packages, allDeps, depIdx, clauses, numVars,
                 solution, solverCalls, warnings, selectedVersions, pending, resolved,
                 thrown, lookups>>

\* resolve(pkg) is called: the fields are reset and the registry load starts
Call(r, dependencies) ==
  /\ pc[r] = "idle"
  /\ resolvedDeps' = EmptyMap
  /\ variableMap' = EmptyMap
  /\ versionMap' = EmptyMap
  /\ nextVarId' = 1
  /\ pkg' = [pkg EXCEPT ![r] = dependencies]
  /\ pc' = [pc EXCEPT ![r] = "loadRegistry"]
  /\ UNCHANGED <<parseVars, toolVars, envVars, packages, allDeps, depIdx, clauses, numVars, solution,
                 solverCalls, warnings, selectedVersions, pending, resolved, thrown,
                 lookups>>

\* await this.registry.loadRegistry() returns or throws (caught, warning)
LoadRegistry(r) ==
  /\ pc[r] = "loadRegistry"
  /\ packages' = IF registryOk THEN RegistryPackages ELSE packages
  /\ allDeps' = [allDeps EXCEPT ![r] = <<>>]
  /\ depIdx' = [depIdx EXCEPT ![r] = 1]
  /\ pc' = [pc EXCEPT ![r] = IF Len(pkg[r]) = 0 THEN "encode" ELSE "collect"]
  /\ UNCHANGED <<parseVars, toolVars, envVars, resolvedDeps, variableMap, versionMap, nextVarId, pkg,
                 clauses, numVars, solution, solverCalls, warnings, selectedVersions,
                 pending, resolved, thrown, lookups>>

\* collectAllDependencies: await this.collectVersions(dep, allDeps, new Set())
CollectStep(r) ==
  /\ pc[r] = "collect"
  /\ depIdx[r] <= Len(pkg[r])
  /\ allDeps' = [allDeps EXCEPT ![r] = CollectVersions(pkg[r][depIdx[r]], allDeps[r])]
  /\ depIdx' = [depIdx EXCEPT ![r] = depIdx[r] + 1]
  /\ pc' = [pc EXCEPT ![r] = IF depIdx[r] = Len(pkg[r]) THEN "encode" ELSE "collect"]
  /\ UNCHANGED <<parseVars, toolVars, envVars, objVars, pkg, clauses, numVars, solution, solverCalls,
                 warnings, selectedVersions, pending, resolved, thrown, lookups>>

\* the synchronous part of resolve() from the first encoding loop to the
\* decoded solution
EncodeAndSolve(r) ==
  /\ pc[r] = "encode"
  /\ LET e == Encode(pkg[r], allDeps[r],
                [variableMap |-> variableMap, versionMap |-> versionMap,
                 nextVarId |-> nextVarId])
         solutions == SatSolve(e.numVars, e.clauses)
     IN /\ variableMap' = e.variableMap
        /\ versionMap' = e.versionMap
        /\ nextVarId' = e.nextVarId
        /\ clauses' = [clauses EXCEPT ![r] = e.clauses]
        /\ numVars' = [numVars EXCEPT ![r] = e.numVars]
        /\ warnings' = [warnings EXCEPT ![r] = e.warnings]
        /\ depIdx' = [depIdx EXCEPT ![r] = 1]
        /\ IF e.numVars = 0
           THEN /\ pc' = [pc EXCEPT ![r] = "done"]
                /\ UNCHANGED <<solution, solverCalls, selectedVersions, thrown>>
           ELSE /\ solverCalls' = [solverCalls EXCEPT ![r] = solverCalls[r] + 1]
                /\ IF solutions = {}
                   THEN /\ pc' = [pc EXCEPT ![r] = "failed"]
                        /\ thrown' = [thrown EXCEPT ![r] = "ResolutionError"]
                        /\ UNCHANGED <<solution, selectedVersions>>
                   ELSE /\ \E sol \in solutions :
                             /\ solution' = [solution EXCEPT ![r] = sol]
                             /\ selectedVersions' = [selectedVersions EXCEPT ![r] =
                                   ExtractSolution(e.numVars, sol, e.versionMap)]
                        /\ pc' = [pc EXCEPT ![r] =
                                    IF Len(pkg[r]) = 0 THEN "done" ELSE "resolveDependency"]
                        /\ UNCHANGED thrown
  /\ UNCHANGED <<parseVars, toolVars, envVars, resolvedDeps, packages, pkg, allDeps, pending, resolved,
                 lookups>>

\* resolveDependency(dep, selectedVersions) up to its first await: the cache
\* check and the url
ResolveDependencyStart(r) ==
  /\ pc[r] = "resolveDependency"
  /\ LET dep == pkg[r][depIdx[r]]
         cacheKey == Key(dep.name, dep.version)
         hasExplicitUrl == dep.url # ""
         url == ResolvedUrl(dep, packages)
     IN IF cacheKey \in DOMAIN resolvedDeps
        THEN /\ resolved' = [resolved EXCEPT ![r] = Append(resolved[r], resolvedDeps[cacheKey])]
             /\ depIdx' = [depIdx EXCEPT ![r] = depIdx[r] + 1]
             /\ pc' = [pc EXCEPT ![r] =
                         IF depIdx[r] = Len(pkg[r]) THEN "done" ELSE "resolveDependency"]
             /\ UNCHANGED <<pending, lookups>>
        ELSE /\ pending' = [pending EXCEPT ![r] =
                   [url |-> url, fetch |-> FetchesName(dep, url)]]
             /\ lookups' = [lookups EXCEPT ![r] =
                   IF hasExplicitUrl THEN lookups[r]
                   ELSE Append(lookups[r], <<"registry", dep.name, dep.version>>)]
             /\ pc' = [pc EXCEPT ![r] = "awaitLookups"]
             /\ UNCHANGED <<resolved, depIdx>>
  /\ UNCHANGED <<parseVars, toolVars, envVars, objVars, pkg, allDeps, clauses, numVars, solution,
                 solverCalls, warnings, selectedVersions, thrown>>

\* resolveDependency after its awaits (GitHub name fetch, local-presence
\* probe): the entry is built, cached and pushed
ResolveDependencyFinish(r) ==
  /\ pc[r] = "awaitLookups"
  /\ LET dep == pkg[r][depIdx[r]]
         cacheKey == Key(dep.name, dep.version)
         resolvedDep == ResolvedEntry(dep, pending[r].url, pending[r].fetch,
                                      selectedVersions[r])
     IN /\ resolvedDeps' = MapSet(resolvedDeps, cacheKey, resolvedDep)
        /\ resolved' = [resolved EXCEPT ![r] = Append(resolved[r], resolvedDep)]
        /\ lookups' = [lookups EXCEPT ![r] =
              lookups[r]
              \o (IF pending[r].fetch THEN << <<"fetch", dep.name, dep.version>> >> ELSE <<>>)
              \o << <<"local", dep.name, dep.version>> >>]
  /\ pending' = [pending EXCEPT ![r] = NoPending]
  /\ depIdx' = [depIdx EXCEPT ![r] = depIdx[r] + 1]
  /\ pc' = [pc EXCEPT ![r] =
              IF depIdx[r] = Len(pkg[r]) THEN "done" ELSE "resolveDependency"]
  /\ UNCHANGED <<parseVars, toolVars, envVars, variableMap, versionMap, nextVarId, packages, pkg, allDeps,
                 clauses, numVars, solution, solverCalls, warnings, selectedVersions,
                 thrown>>

\* the steps of a call that has started
Step(r) ==
  \/ LoadRegistry(r)
  \/ CollectStep(r)
  \/ EncodeAndSolve(r)
  \/ ResolveDependencyStart(r)
  \/ ResolveDependencyFinish(r)

\* the resolver is used for one call, then reused for a second call once
\* the first has returned: with the same manifest or with an empty one
FirstCall == \E m \in Manifests : Call(1, m)

SecondCall ==
  /\ Finished(1)
  /\ \E m \in {pkg[1], <<>>} : Call(2, m)

Next ==
  \/ FirstCall
  \/ SecondCall
  \/ \E r \in Runs : Step(r)

Spec == Init /\ [][Next]_vars

\* two calls on the same resolver that overlap: the second call is made
\* while the first is suspended at an await
OverlapFirstCall == \E m \in OverlapManifests : Call(1, m)

OverlapSecondCall ==
  /\ pc[1] # "idle"
  /\ \E m \in OverlapManifests : Call(2, m)

NextOverlap ==
  \/ OverlapFirstCall
  \/ OverlapSecondCall
  \/ \E r \in Runs : Step(r)

SpecOverlap == Init /\ [][NextOverlap]_vars

\* ------------------------------------------------------------------------
\* resolve() run alone on a fresh resolver
\* ------------------------------------------------------------------------

\* collectAllDependencies(pkg)
RECURSIVE CollectFrom(_, _)
CollectFrom(dependencies, deps) ==
  IF Len(dependencies) = 0 THEN deps
  ELSE CollectFrom(Tail(dependencies), CollectVersions(dependencies[1], deps))

CollectAllDependencies(dependencies) == CollectFrom(dependencies, <<>>)

\* the fields after the reset at the top of resolve()
ResetFields == [variableMap |-> EmptyMap, versionMap |-> EmptyMap, nextVarId |-> 1]

\* how resolve(pkg) ends: "done" (a list is returned) or "failed" (it throws)
ResolveOutcome(dependencies) ==
  LET e == Encode(dependencies, CollectAllDependencies(dependencies), ResetFields)
  IN IF e.numVars = 0 THEN "done"
     ELSE IF SatSolve(e.numVars, e.clauses) = {} THEN "failed" ELSE "done"

\* the last loop of resolve(): resolveDependency for each dependency, with
\* the resolvedDeps cache
RECURSIVE ResolveEach(_, _, _, _)
ResolveEach(dependencies, selectedMap, pkgs, cache) ==
  IF Len(dependencies) = 0 THEN <<>>
  ELSE LET dep == dependencies[1]
           cacheKey == Key(dep.name, dep.version)
           url == ResolvedUrl(dep, pkgs)
           entry == IF cacheKey \in DOMAIN cache THEN cache[cacheKey]
                    ELSE ResolvedEntry(dep, url, FetchesName(dep, url), selectedMap)
       IN <<entry>> \o ResolveEach(Tail(dependencies), selectedMap, pkgs,
                                   MapSet(cache, cacheKey, entry))

\* the lists resolve(pkg) can return
ResolveAlone(dependencies) ==
  LET e == Encode(dependencies, CollectAllDependencies(dependencies), ResetFields)
      pkgs == IF registryOk THEN RegistryPackages ELSE EmptyMap
  IN IF e.numVars = 0 THEN { <<>> }
     ELSE { ResolveEach(dependencies, ExtractSolution(e.numVars, sol, e.versionMap),
                        pkgs, EmptyMap) : sol \in SatSolve(e.numVars, e.clauses) }

\* the line the loop of parseContent is at, trimmed
CurrentLine == Trim(lines[lineIdx])

\* the loop moves to its next line, or ends
NextLine ==
  /\ lineIdx' = lineIdx + 1
  /\ ppc' = IF lineIdx = Len(lines) THEN "assemble" ELSE "loop"

\* NimbleParser.parseContent(content) is called: comments are stripped,
\* blank lines dropped and the locals initialised
ParseContent(text) ==
  /\ ppc = "idle"
  /\ content' = text
  /\ lines' = FilterLines(text)
  /\ lineIdx' = 1
  /\ ppc' = IF Len(FilterLines(text)) = 0 THEN "assemble" ELSE "loop"
  /\ inBlock' = TRUE
  /\ currentKey' = <<>>
  /\ currentValue' = <<>>
  /\ currentFeature' = <<>>
  /\ result' = EmptyMap
  /\ dependencyTexts' = <<>>
  /\ features' = <<>>
  /\ UNCHANGED <<manifest, parseThrown, toolVars, envVars, objVars, runVars>>

\* if (line.trim() === 'begin') { inBlock = true; continue; }
LineBegin ==
  /\ ppc = "loop"
  /\ CurrentLine = BeginWord
  /\ inBlock' = TRUE
  /\ NextLine
  /\ UNCHANGED <<content, lines, currentKey, currentValue, currentFeature, result,
                 dependencyTexts, features, manifest, parseThrown, toolVars, envVars, objVars,
                 runVars>>

\* if (line.trim() === 'end') { flush; break; }
LineEnd ==
  /\ ppc = "loop"
  /\ CurrentLine = EndWord
  /\ result' = Flush(result, currentKey, currentValue)
  /\ ppc' = "assemble"
  /\ UNCHANGED <<content, lines, lineIdx, inBlock, currentKey, currentValue,
                 currentFeature, dependencyTexts, features, manifest, parseThrown, toolVars, envVars,
                 objVars, runVars>>

\* the line is neither `begin` nor `end` and the loop is inside the block
\* (inBlock is never set to false)
InsideBlock ==
  /\ ppc = "loop"
  /\ CurrentLine # BeginWord
  /\ CurrentLine # EndWord
  /\ inBlock

\* a requires statement whose parts are pushed to the direct list as well
\* when a feature is open
LineRequiresLeaking ==
  /\ InsideBlock
  /\ RequiresMatch(CurrentLine) # <<>>
  /\ LET deps == ExtractDeps(Split(RequiresMatch(CurrentLine)[1], ","))
     IN /\ dependencyTexts' = dependencyTexts \o deps
        /\ features' = IF currentFeature # <<>> /\ Len(deps) > 0
                       THEN PutEntry(features, currentFeature,
                              (IF HasEntry(features, currentFeature)
                               THEN GetEntry(features, currentFeature) ELSE <<>>) \o deps)
                       ELSE features
  /\ NextLine
  /\ UNCHANGED <<content, lines, inBlock, currentKey, currentValue, currentFeature,
                 result, manifest, parseThrown, toolVars, envVars, objVars, runVars>>

\* a requires statement: every quoted part is pushed to the current
\* feature's list, or to the direct list when no feature is open
LineRequires ==
  /\ InsideBlock
  /\ RequiresMatch(CurrentLine) # <<>>
  /\ LET deps == ExtractDeps(Split(RequiresMatch(CurrentLine)[1], ","))
     IN IF currentFeature # <<>> /\ Len(deps) > 0
        THEN /\ features' = PutEntry(features, currentFeature,
                               (IF HasEntry(features, currentFeature)
                                THEN GetEntry(features, currentFeature) ELSE <<>>) \o deps)
             /\ UNCHANGED dependencyTexts
        ELSE /\ dependencyTexts' = dependencyTexts \o deps
             /\ UNCHANGED features
  /\ NextLine
  /\ UNCHANGED <<content, lines, inBlock, currentKey, currentValue, currentFeature,
                 result, manifest, parseThrown, toolVars, envVars, objVars, runVars>>

\* a feature header: the pending value is flushed and the feature becomes
\* the current one, with an empty list
LineFeature ==
  /\ InsideBlock
  /\ RequiresMatch(CurrentLine) = <<>>
  /\ FeatureMatch(CurrentLine) # <<>>
  /\ result' = Flush(result, currentKey, currentValue)
  /\ currentKey' = <<>>
  /\ currentValue' = <<>>
  /\ currentFeature' = FeatureMatch(CurrentLine)[1]
  /\ features' = PutEntry(features, FeatureMatch(CurrentLine)[1], <<>>)
  /\ NextLine
  /\ UNCHANGED <<content, lines, inBlock, dependencyTexts, manifest, parseThrown,
                 toolVars, envVars, objVars, runVars>>

\* a `key = value` line: the pending value is flushed and a new one starts
LineKey ==
  /\ InsideBlock
  /\ RequiresMatch(CurrentLine) = <<>>
  /\ FeatureMatch(CurrentLine) = <<>>
  /\ KeyMatch(CurrentLine) # <<>>
  /\ result' = Flush(result, currentKey, currentValue)
  /\ currentKey' = KeyMatch(CurrentLine)[1]
  /\ currentValue' = <<KeyMatch(CurrentLine)[2]>>
  /\ NextLine
  /\ UNCHANGED <<content, lines, inBlock, currentFeature, dependencyTexts, features,
                 manifest, parseThrown, toolVars, envVars, objVars, runVars>>

\* any other line continues the pending value, if there is one
LineContinuation ==
  /\ InsideBlock
  /\ RequiresMatch(CurrentLine) = <<>>
  /\ FeatureMatch(CurrentLine) = <<>>
  /\ KeyMatch(CurrentLine) = <<>>
  /\ currentValue' = IF currentKey # <<>> THEN Append(currentValue, CurrentLine)
                     ELSE currentValue
  /\ NextLine
  /\ UNCHANGED <<content, lines, inBlock, currentKey, currentFeature, result,
                 dependencyTexts, features, manifest, parseThrown, toolVars, envVars, objVars,
                 runVars>>

\* after the loop: the last pending value is flushed and the NimblePackage
\* is built and returned
Return ==
  /\ ppc = "assemble"
  /\ LET flushed == Flush(result, currentKey, currentValue)
         built == Assemble(flushed, dependencyTexts, features)
     IN /\ result' = flushed
        /\ parseThrown' = built.threw
        /\ manifest' = IF built.threw THEN manifest
                       ELSE [returned |-> TRUE, package |-> built.package]
  /\ ppc' = "returned"
  /\ UNCHANGED <<content, lines, lineIdx, inBlock, currentKey, currentValue,
                 currentFeature, dependencyTexts, features, toolVars, envVars, objVars, runVars>>

\* ------------------------------------------------------------------------
\* Manifest texts handed to parseContent
\* ------------------------------------------------------------------------

Quote == <<"\"">>
Tick == <<Backtick>>
Space == <<" ">>

\* package names, a version, a feature name
Nim == <<"n", "i", "m">>
Ab == <<"a", "b">>
V10 == <<"1", ".", "0">>
Names == {Nim, Ab}

Gte == <<">", "=">>
Operators == {Gte, <<"=", "=">>, <<">">>, <<"<", "=">>, <<"<">>, <<"!", "=">>}
Spacings == {<<>>, Space, Space \o Space}

\* the text of a requirement that names a package: a bare name, or a name,
\* an operator and a version with any spacing around the operator
PlainTexts ==
  Names \cup {Space \o Nim \o Space}
  \cup {name \o s1 \o op \o s2 \o V10 :
          name \in Names, op \in Operators, s1 \in Spacings, s2 \in Spacings}

\* urls: https://h/<segment>, the scheme alone, a url without a path, and
\* a url of another scheme
HttpScheme == <<"h", "t", "t", "p", ":", "/", "/">>
Repo == <<"r">>
Windy == <<"[", "w", "]">>
Segments ==
  {Repo, Repo \o GitSuffix, Repo \o Windy, Repo \o GitSuffix \o Windy,
   Repo \o Windy \o GitSuffix, Windy, <<>>}
HttpsUrls ==
  {HttpsScheme \o <<"h", "/">> \o seg : seg \in Segments}
  \cup {HttpsScheme \o <<"h">>}
OtherUrls == {HttpScheme \o <<"h", "/">> \o Repo}
Urls == HttpsUrls \cup OtherUrls \cup {HttpsScheme}

\* ` >= 1.0` behind a url, or nothing
UrlVersions == {<<>>, Space \o Gte \o Space \o V10}

\* a requirement as written behind `requires`: "text", "name" op version,
\* " `url` >= version", `url` >= version, "url >= version"
PlainRequirements ==
  {Quote \o t \o Quote : t \in PlainTexts}
  \cup {Quote \o name \o Quote \o Space \o op \o Space \o V10 :
          name \in Names, op \in Operators}

UrlRequirements ==
  {Quote \o Space \o Tick \o u \o Tick \o Space \o v \o Quote : u \in Urls, v \in UrlVersions}
  \cup {Tick \o u \o Tick \o v : u \in Urls, v \in UrlVersions}
  \cup {Quote \o u \o v \o Quote : u \in Urls, v \in UrlVersions}

\* malformed requirements: unbalanced or empty quotes, no quotes, a '#'
\* inside the quotes, a quote inside backticks
MalformedRequirements ==
  {Quote \o Nim, Nim \o Quote, Nim, Quote \o Quote, Quote \o Space \o Quote,
   Tick \o Tick, Quote, Tick \o Quote \o Tick,
   Quote \o Nim \o <<"#">> \o Ab \o Quote,
   Quote \o Nim \o Quote \o Space \o <<"=">> \o Space \o V10}

Requirements == PlainRequirements \cup UrlRequirements \cup MalformedRequirements

\* the requirements used for statements of several parts and for manifests
\* of several lines
NimGte == Quote \o Nim \o Space \o Gte \o Space \o V10 \o Quote
AbBare == Quote \o Ab \o Quote
RepoUrl == Quote \o Space \o Tick \o HttpsScheme \o <<"h", "/">> \o Repo \o Tick \o Space
             \o Space \o Gte \o Space \o V10 \o Quote
FewRequirements == {NimGte, AbBare, RepoUrl, Quote \o Quote, Nim}

\* items.join(', ')
RECURSIVE JoinComma(_)
JoinComma(items) ==
  IF Len(items) = 0 THEN <<>>
  ELSE IF Len(items) = 1 THEN items[1]
  ELSE items[1] \o <<",", " ">> \o JoinComma(Tail(items))

\* the line `requires <requirement>, <requirement>, ...`
RequiresLine(requirements) == RequiresWord \o Space \o JoinComma(requirements)

\* most requirements of one requires statement
MaxParts == 2

\* most lines of a manifest of several statements
MaxLines == 3

\* the sequences over S of length 1 to n
SeqFrom(S, n) == UNION {[1..k -> S] : k \in 1..n}

FeatureName == <<"x">>
FeatureLine == FeatureWord \o Space \o Quote \o FeatureName \o Quote \o <<":">>
VersionLine == VersionKey \o Space \o <<"=">> \o Space \o Quote \o V10 \o Quote

\* the lines of a manifest of several statements
StatementLines ==
  {RequiresLine(<<NimGte>>), Space \o Space \o RequiresLine(<<AbBare>>), FeatureLine,
   VersionLine, Space \o Ab, BeginWord, EndWord, <<"#">> \o Space \o Ab}

\* values of a `key = value` line
ValueTexts ==
  {Quote \o V10 \o Quote,
   <<"@", "[">> \o AbBare \o <<",", " ">> \o NimGte \o <<"]">>,
   <<"[">> \o AbBare \o <<"]">>,
   <<"[", "]">>,
   <<"{">> \o Ab \o <<":", " ">> \o AbBare \o <<",", " ">> \o Nim \o <<"}">>,
   Ab, Quote, <<"@", "[">>}

KeyLines ==
  {key \o Space \o <<"=">> \o Space \o v :
     key \in {VersionKey, DependenciesKey, FeaturesKey}, v \in ValueTexts}

\* the manifests: one requires statement of one requirement; one requires
\* statement of several requirements; several statements; one assignment,
\* alone or before a requires statement
Contents ==
  {<<RequiresLine(<<r>>)>> : r \in Requirements}
  \cup {<<RequiresLine(rs)>> : rs \in SeqFrom(FewRequirements, MaxParts)}
  \cup SeqFrom(StatementLines, MaxLines)
  \cup {<<l>> : l \in KeyLines}
  \cup {<<l, RequiresLine(<<AbBare>>)>> : l \in KeyLines}

\* ------------------------------------------------------------------------
\* parseContent as a specification
\* ------------------------------------------------------------------------

InitParse ==
  /\ Init
  /\ registryOk
  /\ ~dirExists
  /\ nimProbe = Null
  /\ githubName = Null

NextParse ==
  \/ \E text \in Contents : ParseContent(text)
  \/ LineBegin
  \/ LineEnd
  \/ LineRequires
  \/ LineFeature
  \/ LineKey
  \/ LineContinuation
  \/ Return

SpecParse == InitParse /\ [][NextParse]_vars

\* ------------------------------------------------------------------------
\* Properties
\* ------------------------------------------------------------------------

\* the elements of a list
Range(s) == { s[i] : i \in 1..Len(s) }

\* the call has left the synchronous encoding block
PastEncode(r) == pc[r] \in {"resolveDependency", "awaitLookups", "done", "failed"}

\* the fields of the resolver still hold what call r put there: no later
\* call has reset them
Latest(r) == \A q \in Runs : q > r => pc[q] = "idle"

\* a direct dependency that is not the toolchain and carries a real range
Constrained(dep) == dep.name # "nim" /\ dep.version # "*" /\ dep.version # ""

\* C1: after a successful resolve(), the version reported for every direct
\* non-toolchain dependency with a range other than '*' or '' satisfies the
\* requirement `name >= V`: it is >= V in semantic-version order.
C1_ReportedVersionSatisfiesRequirement ==
  \A r \in Runs :
    pc[r] = "done" =>
      \A i \in 1..Len(resolved[r]) :
        Constrained(pkg[r][i]) =>
          SemverSatisfiesGte(resolved[r][i].version, pkg[r][i].version)

\* a direct non-toolchain dependency none of whose candidates is >= its range
NoCandidate(r) ==
  \E i \in 1..Len(pkg[r]) :
    /\ Constrained(pkg[r][i])
    /\ \A v \in Range(AllDepsGet(allDeps[r], pkg[r][i].name)) :
         ~SemverSatisfiesGte(v, pkg[r][i].version)

\* C2: when a direct non-toolchain dependency has no candidate version
\* satisfying its constraint, resolve() fails with NoCandidateError and
\* returns no result.
C2_NoCandidateErrorRaised ==
  \A r \in Runs :
    (PastEncode(r) /\ NoCandidate(r)) =>
      /\ pc[r] = "failed"
      /\ thrown[r] = "NoCandidateError"
      /\ resolved[r] = <<>>

\* the variables of call r's solution that are true for package `name`
TrueVariables(r, name) ==
  { id \in DOMAIN versionMap : versionMap[id].name = name /\ solution[r][id] }

\* the package names call r modeled
Modeled(r) == { allDeps[r][i].name : i \in 1..Len(allDeps[r]) }

\* C3: in every successful run the solution makes exactly one variable of
\* each modeled package true, and the decoded selection map holds, for
\* exactly the modeled package names, a version of the package's candidate
\* set.
C3_ExactlyOneVersionSelected ==
  \A r \in Runs :
    (Latest(r) /\ solverCalls[r] > 0 /\ pc[r] \in {"resolveDependency", "awaitLookups", "done"}) =>
      /\ DOMAIN selectedVersions[r] = Modeled(r)
      /\ \A name \in Modeled(r) :
           /\ Cardinality(TrueVariables(r, name)) = 1
           /\ selectedVersions[r][name] \in Range(AllDepsGet(allDeps[r], name))

\* C3 witness: a successful run that modeled two packages and decoded a
\* solution
C3_Witness ==
  \E r \in Runs :
    /\ Latest(r) /\ pc[r] = "done" /\ solverCalls[r] > 0
    /\ Cardinality(Modeled(r)) = 2
    /\ Cardinality(DOMAIN selectedVersions[r]) = 2

\* C4: no entry of the variable table or of the version table has package
\* name 'nim', and a run whose manifest requires only 'nim' allocates no
\* variable.
C4_ToolchainNeverModeled ==
  /\ \A k \in DOMAIN variableMap : k[1] # "nim"
  /\ \A id \in DOMAIN versionMap : versionMap[id].name # "nim"
  /\ \A r \in Runs :
       (PastEncode(r) /\ \A i \in 1..Len(pkg[r]) : pkg[r][i].name = "nim") =>
         numVars[r] = 0

\* the manifest with the constraint of every 'nim' requirement replaced by '*'
StarNim(dependencies) ==
  [i \in 1..Len(dependencies) |->
     IF dependencies[i].name = "nim"
     THEN [dependencies[i] EXCEPT !.version = "*"] ELSE dependencies[i]]

\* the installed toolchain does not satisfy a 'nim' requirement of call r
NimUnsatisfied(r) ==
  \E i \in 1..Len(pkg[r]) :
    /\ pkg[r][i].name = "nim"
    /\ pkg[r][i].version # "*" /\ pkg[r][i].version # ""
    /\ nimProbe # Null
    /\ ~SemverSatisfiesGte(nimProbe, pkg[r][i].version)

\* C5: the toolchain dependency never blocks resolution: a call succeeds
\* exactly when resolve() succeeds for the manifest with the 'nim' constraint
\* replaced by '*', whatever the toolchain probe reports, and an unsatisfied
\* toolchain requirement only logs a warning.
C5_ToolchainNeverBlocks ==
  \A r \in Runs :
    /\ Finished(r) => ((pc[r] = "done") <=> (ResolveOutcome(StarNim(pkg[r])) = "done"))
    /\ (PastEncode(r) /\ NimUnsatisfied(r)) => (warnings[r] >= 1 /\ thrown[r] = Null)

\* C5 witness: a call that returned although the installed toolchain 1.0.0
\* does not satisfy its requirement nim >= 2.0.0, with another package
\* resolved beside it
C5_Witness ==
  \E r \in Runs :
    /\ pc[r] = "done" /\ NimUnsatisfied(r) /\ warnings[r] = 1
    /\ Len(resolved[r]) = 2
    /\ \E i \in 1..Len(pkg[r]) : pkg[r][i].name # "nim"

\* C6: the unsatisfiable-constraints error is raised only after the solver
\* ran on the full clause set and only when two or more packages are
\* involved; a single package's infeasible requirement is reported before
\* the solver runs, as NoCandidateError.
C6_ResolutionErrorOnlyAcrossPackages ==
  \A r \in Runs :
    /\ thrown[r] = "ResolutionError" =>
         (solverCalls[r] > 0 /\ Cardinality(Modeled(r)) >= 2)
    /\ (PastEncode(r) /\ NoCandidate(r)) =>
         (thrown[r] = "NoCandidateError" /\ solverCalls[r] = 0)

\* some external collaborator fails or has nothing to report
CollaboratorFailed ==
  ~registryOk \/ ~dirExists \/ nimProbe = Null \/ githubName = Null

\* C7: a collaborator failure is "no information": the call does not throw
\* because of it, and a package with no discoverable version gets the
\* single candidate '0.0.0'.
C7_CollaboratorFailuresAbsorbed ==
  \A r \in Runs :
    /\ CollaboratorFailed => (pc[r] # "failed" /\ thrown[r] = Null)
    /\ \A i \in 1..Len(allDeps[r]) :
         GetLocalPackageVersion(allDeps[r][i].name) = Null =>
           allDeps[r][i].versions = <<"0.0.0">>

\* C7 witness: a call returned its list although the registry did not load,
\* the packages directory is missing, the toolchain probe failed and the
\* GitHub lookup of an explicit url failed; both candidates are '0.0.0'
C7_Witness ==
  \E r \in Runs :
    /\ pc[r] = "done" /\ Len(resolved[r]) = 2
    /\ ~registryOk /\ ~dirExists /\ nimProbe = Null /\ githubName = Null
    /\ \E i \in 1..Len(pkg[r]) : pkg[r][i].url = ExplicitUrl
    /\ \E i \in 1..Len(pkg[r]) : pkg[r][i].name = "nim"
    /\ \A i \in 1..Len(allDeps[r]) : allDeps[r][i].versions = <<"0.0.0">>

\* the number of variables call r allocated for its own candidates
RECURSIVE CountVersions(_)
CountVersions(deps) ==
  IF Len(deps) = 0 THEN 0 ELSE Len(deps[1].versions) + CountVersions(Tail(deps))

\* C8: two calls whose steps interleave do not interfere: each returns a
\* list it could return when run alone, and the variables it hands to the
\* solver are its own.
C8_OverlappingRunsIndependent ==
  \A r \in Runs :
    pc[r] = "done" =>
      /\ resolved[r] \in ResolveAlone(pkg[r])
      /\ numVars[r] = CountVersions(allDeps[r])

\* C9: two calls, one after the other, on the same resolver with the same
\* manifest end the same way with equal lists, and the second call's
\* variables, clauses, solution and lookups are those of the first.
C9_RepeatedResolveIdentical ==
  (Finished(1) /\ Finished(2) /\ pkg[1] = pkg[2]) =>
    /\ pc[2] = pc[1] /\ thrown[2] = thrown[1]
    /\ resolved[2] = resolved[1]
    /\ numVars[2] = numVars[1] /\ clauses[2] = clauses[1]
    /\ solution[2] = solution[1] /\ selectedVersions[2] = selectedVersions[1]
    /\ lookups[2] = lookups[1]
    /\ DOMAIN versionMap = 1..numVars[2]

\* C9 witness: the second call returned a two-entry list for the manifest
\* the first call resolved
C9_Witness ==
  /\ pc[1] = "done" /\ pc[2] = "done" /\ pkg[1] = pkg[2]
  /\ Len(resolved[2]) = 2 /\ numVars[2] = 2 /\ Len(lookups[2]) > 0

\* C10: a call with no dependencies returns the empty list without a solver
\* invocation, and the solver is invoked only by a call that allocated at
\* least one variable itself.
C10_SolverOnlyWithVariables ==
  \A r \in Runs :
    /\ (PastEncode(r) /\ Len(pkg[r]) = 0) =>
         (pc[r] = "done" /\ resolved[r] = <<>> /\ solverCalls[r] = 0)
    /\ solverCalls[r] > 0 => CountVersions(allDeps[r]) >= 1

\* C10 witness: after a call that ran the solver, the resolver is reused for
\* an empty manifest and returns the empty list with no solver invocation
C10_Witness ==
  /\ pc[1] = "done" /\ solverCalls[1] = 1
  /\ pc[2] = "done" /\ pkg[2] = <<>> /\ resolved[2] = <<>> /\ solverCalls[2] = 0

\* ------------------------------------------------------------------------
\* C11
\* ------------------------------------------------------------------------

\* how many lookups of one kind a run has made for one (name, constraint)
LookupCount(r, kind, name, version) ==
  Cardinality({k \in 1..Len(lookups[r]) : lookups[r][k] = <<kind, name, version>>})

\* C11: within one resolve() run each external lookup (registry url,
\* remote package-name fetch, local-presence probe) is made at most once per
\* (name, constraint); a repeated request for the pair returns the first
\* result; and every entry a run returns was produced by that run, with its
\* own local-presence probe, never taken from an earlier run's cache.
C11_LookupsOncePerPair ==
  \A r \in Runs :
    /\ \A k \in 1..Len(lookups[r]) :
         LookupCount(r, lookups[r][k][1], lookups[r][k][2], lookups[r][k][3]) = 1
    /\ \A i \in 1..Len(resolved[r]) :
         /\ LookupCount(r, "local", pkg[r][i].name, pkg[r][i].version) = 1
         /\ \A j \in 1..(i - 1) :
              Key(pkg[r][j].name, pkg[r][j].version) = Key(pkg[r][i].name, pkg[r][i].version)
                => resolved[r][i] = resolved[r][j]

\* a second run on the same resolver has returned two entries for one
\* (name, constraint) requested twice, once with a url and once without
C11_Witness ==
  /\ pc[1] = "done"
  /\ pc[2] = "done"
  /\ Len(resolved[2]) = 2
  /\ pkg[2][1] # pkg[2][2]
  /\ Key(pkg[2][1].name, pkg[2][1].version) = Key(pkg[2][2].name, pkg[2][2].version)
  /\ resolved[2][1] = resolved[2][2]
  /\ Len(lookups[2]) > 0

\* ------------------------------------------------------------------------
\* C12
\* ------------------------------------------------------------------------

\* C12: parseContent is total: whatever the text (unbalanced quotes,
\* unknown operators, keys named dependencies or features, stray begin and
\* end lines), it never throws, its loop never leaves the lines, and it
\* returns a manifest whose dependency lists are lists of dependencies.
C12_ParseContentTotal ==
  /\ ~parseThrown
  /\ ppc = "loop" => lineIdx \in 1..Len(lines)
  /\ ppc = "returned" =>
       /\ manifest.returned
       /\ \A i \in 1..Len(manifest.package.dependencies) :
            DOMAIN manifest.package.dependencies[i] = {"name", "version", "url"}

\* a manifest was returned for a text that assigns a string or an object
\* to the key `dependencies`
C12_Witness ==
  /\ ppc = "returned"
  /\ manifest.returned
  /\ Field(result, DependenciesKey).type \in {"string", "object"}

\* ------------------------------------------------------------------------
\* C13
\* ------------------------------------------------------------------------

\* how often x occurs in a list
Count(list, x) == Cardinality({i \in 1..Len(list) : list[i] = x})

\* the lists of a list of entries, one after the other
RECURSIVE Flatten(_)
Flatten(entries) ==
  IF Len(entries) = 0 THEN <<>> ELSE entries[1].val \o Flatten(Tail(entries))

\* every dependency of the returned manifest: the direct list, then the
\* feature lists
AllParsed == manifest.package.dependencies \o Flatten(manifest.package.features)

\* the lines of a text in front of its first `end` line
BeforeEnd(text) ==
  LET ends == {i \in 1..Len(text) : Trim(text[i]) = EndWord}
  IN IF ends = {} THEN text ELSE SubSeq(text, 1, Min(ends) - 1)

\* no feature name has two headers in the text (a second header of a
\* feature empties its list)
UniqueFeatures(text) == Count(BeforeEnd(text), FeatureLine) <= 1

\* the dependency {name, version, url: ''}
Plain(name, version) == [name |-> name, version |-> version, url |-> <<>>]

\* the requirements "<name> >= 1.0", with one or two spaces on each side of
\* the operator
GteRequirements ==
  {[text |-> Quote \o name \o s1 \o Gte \o s2 \o V10 \o Quote, name |-> name] :
     name \in Names, s1 \in Spacings \ {<<>>}, s2 \in Spacings \ {<<>>}}

\* C13: a double-quoted requirement "<name> >= <version>" of a requires
\* statement yields exactly one dependency, with that name, the version
\* without the operator and an empty url: alone in its statement it is the
\* whole list, and among other requirements and statements (up to the
\* `end` line, each feature having one header) there is one such dependency
\* for every such requirement.
C13_GteRequirementParsed ==
  ppc = "returned" =>
    /\ \A q \in GteRequirements :
         content = <<RequiresLine(<<q.text>>)>>
           => manifest.package.dependencies = <<Plain(q.name, V10)>>
    /\ \A rs \in SeqFrom(FewRequirements, MaxParts) :
         content = <<RequiresLine(rs)>>
           => Count(AllParsed, Plain(Nim, V10)) = Count(rs, NimGte)
    /\ content \in SeqFrom(StatementLines, MaxLines) /\ UniqueFeatures(content)
         => Count(AllParsed, Plain(Nim, V10))
              = Count(BeforeEnd(content), RequiresLine(<<NimGte>>))

\* `requires "ab  >= 1.0"` has been parsed
C13_Witness ==
  /\ ppc = "returned"
  /\ content = <<RequiresLine(<<Quote \o Ab \o Space \o Space \o Gte \o Space \o V10 \o Quote>>)>>
  /\ manifest.package.dependencies = <<Plain(Ab, V10)>>

\* ------------------------------------------------------------------------
\* C14
\* ------------------------------------------------------------------------

\* the dependency of the url requirement RepoUrl
RepoDependency ==
  [name |-> Repo, version |-> V10, url |-> HttpsScheme \o <<"h", "/">> \o Repo]

\* what each of the few requirements stands for: a list of one dependency,
\* or nothing for a part that holds no quoted requirement
ExpectedOf(r) ==
  IF r = NimGte THEN <<Plain(Nim, V10)>>
  ELSE IF r = AbBare THEN <<Plain(Ab, Star)>>
  ELSE IF r = RepoUrl THEN <<RepoDependency>>
  ELSE <<>>

RECURSIVE ExpectedList(_)
ExpectedList(rs) ==
  IF Len(rs) = 0 THEN <<>> ELSE ExpectedOf(rs[1]) \o ExpectedList(Tail(rs))

\* the same for the lines of a manifest of several statements
ExpectedOfLine(l) ==
  IF l = RequiresLine(<<NimGte>>) THEN <<Plain(Nim, V10)>>
  ELSE IF l = Space \o Space \o RequiresLine(<<AbBare>>) THEN <<Plain(Ab, Star)>>
  ELSE <<>>

RECURSIVE ExpectedLines(_)
ExpectedLines(text) ==
  IF Len(text) = 0 THEN <<>> ELSE ExpectedOfLine(text[1]) \o ExpectedLines(Tail(text))

\* the lines of a text in front of its first feature header
BeforeFeature(text) ==
  LET headers == {i \in 1..Len(text) : text[i] = FeatureLine}
  IN IF headers = {} THEN text ELSE SubSeq(text, 1, Min(headers) - 1)

\* C14: the direct dependency list holds one entry per quoted requirement,
\* in source order: the parts of one requires statement left to right, and
\* the top-level requires statements in the order of their lines.
C14_DirectListInSourceOrder ==
  ppc = "returned" =>
    /\ \A rs \in SeqFrom(FewRequirements, MaxParts) :
         content = <<RequiresLine(rs)>>
           => manifest.package.dependencies = ExpectedList(rs)
    /\ content \in SeqFrom(StatementLines, MaxLines)
         => manifest.package.dependencies = ExpectedLines(BeforeFeature(BeforeEnd(content)))

\* `requires "nim >= 1.0", "ab"` has been parsed into two dependencies
C14_Witness ==
  /\ ppc = "returned"
  /\ content = <<RequiresLine(<<NimGte, AbBare>>)>>
  /\ manifest.package.dependencies = <<Plain(Nim, V10), Plain(Ab, Star)>>

\* ------------------------------------------------------------------------
\* C15
\* ------------------------------------------------------------------------

\* the requires statements of one backtick-quoted url u, followed by v
\* (nothing, or ` >= 1.0`): inside double quotes, and without them
BacktickStatements(u, v) ==
  {<<RequiresLine(<<Quote \o Space \o Tick \o u \o Tick \o Space \o v \o Quote>>)>>,
   <<RequiresLine(<<Tick \o u \o Tick \o v>>)>>}

\* the statement yielded one dependency with url u and the version of v
UrlParsedAs(u, v) ==
  /\ Len(manifest.package.dependencies) = 1
  /\ manifest.package.dependencies[1].url = u
  /\ manifest.package.dependencies[1].version = IF v = <<>> THEN Star ELSE V10

\* C15 as stated: for a backtick-quoted url with any scheme marker,
\* optionally followed by `>= <version>`, the dependency's url is the text
\* between the backticks and its version the trailing version, or '*'.
C15_UrlRequirementParsed ==
  ppc = "returned" =>
    \A u \in Urls, v \in UrlVersions :
      content \in BacktickStatements(u, v) => UrlParsedAs(u, v)

\* C15 amended: the same for a url that starts with `https://` and has at
\* least one character behind it.
C15_HttpsUrlRequirementParsed ==
  ppc = "returned" =>
    \A u \in HttpsUrls, v \in UrlVersions :
      content \in BacktickStatements(u, v) => UrlParsedAs(u, v)

\* `requires " `https://h/r[w]`  >= 1.0"` has been parsed
C15_Witness ==
  /\ ppc = "returned"
  /\ content \in BacktickStatements(HttpsScheme \o <<"h", "/">> \o Repo \o Windy,
                                    Space \o Gte \o Space \o V10)
  /\ UrlParsedAs(HttpsScheme \o <<"h", "/">> \o Repo \o Windy, Space \o Gte \o Space \o V10)

\* ------------------------------------------------------------------------
\* C16
\* ------------------------------------------------------------------------

\* C16: whenever a parsed dependency has a url, its name is the url's last
\* path segment with a `.git` suffix and a bracketed selector both stripped:
\* r, r.git, r[w] and r.git[w] all give the name r.
C16_NameFromUrlSegment ==
  ppc = "returned" =>
    \A i \in 1..Len(AllParsed) :
      \A seg \in {Repo, Repo \o GitSuffix, Repo \o Windy, Repo \o GitSuffix \o Windy} :
        AllParsed[i].url = HttpsScheme \o <<"h", "/">> \o seg => AllParsed[i].name = Repo

\* ------------------------------------------------------------------------
\* C17
\* ------------------------------------------------------------------------

\* C17: every dependency of the parsed manifest, in the direct list and in
\* every feature list, has a non-empty name, for every text.
C17_NamesNonEmpty ==
  ppc = "returned" => \A i \in 1..Len(AllParsed) : AllParsed[i].name # <<>>

\* ------------------------------------------------------------------------
\* C18
\* ------------------------------------------------------------------------

\* the requires statements among the lines of a manifest
RequiresStatements == {RequiresLine(<<NimGte>>), Space \o Space \o RequiresLine(<<AbBare>>)}

\* the lines of a text behind its first feature header
AfterFeature(text) ==
  LET headers == {i \in 1..Len(text) : text[i] = FeatureLine}
  IN IF headers = {} THEN <<>> ELSE SubSeq(text, Min(headers) + 1, Len(text))

\* k top-level requires statements, one feature header, m requires
\* statements
FeatureBlockShape(text) ==
  /\ text \in SeqFrom(RequiresStatements \cup {FeatureLine}, MaxLines)
  /\ Count(text, FeatureLine) = 1

\* C18: requirements inside a feature block never appear in the direct
\* list: k top-level requirements, a feature header and m requirements
\* yield the k requirements as the direct list and the m requirements as
\* the feature's list, both in source order.
C18_FeatureRequirementsDoNotLeak ==
  ppc = "returned" /\ FeatureBlockShape(content) =>
    /\ manifest.package.dependencies = ExpectedLines(BeforeFeature(content))
    /\ manifest.package.features =
         <<[key |-> FeatureName, val |-> ExpectedLines(AfterFeature(content))]>>

\* a top-level requirement, a feature header and a requirement of the
\* feature have been parsed
C18_Witness ==
  /\ ppc = "returned"
  /\ content = <<RequiresLine(<<NimGte>>), FeatureLine, Space \o Space \o RequiresLine(<<AbBare>>)>>
  /\ manifest.package.dependencies = <<Plain(Nim, V10)>>
  /\ manifest.package.features = <<[key |-> FeatureName, val |-> <<Plain(Ab, Star)>>]>>

\* ------------------------------------------------------------------------
\* C19
\* ------------------------------------------------------------------------

\* C19: a feature header opens a scope that lasts until the next top-level
\* statement: a requires statement behind a later `key = value` assignment
\* goes to the direct list, not to the feature.
C19_FeatureScopeEndsAtAssignment ==
  ppc = "returned" =>
    \A r \in RequiresStatements :
      content = <<FeatureLine, VersionLine, r>> =>
        /\ manifest.package.dependencies = ExpectedOfLine(r)
        /\ manifest.package.features = <<[key |-> FeatureName, val |-> <<>>]>>

\* ------------------------------------------------------------------------
\* C20
\* ------------------------------------------------------------------------

\* the requirement texts with a `>=` that has white space on both sides
GteDelimited ==
  {name \o s1 \o Gte \o s2 \o V10 :
     name \in Names, s1 \in Spacings \ {<<>>}, s2 \in Spacings \ {<<>>}}

\* C20: for a double-quoted text that is no url and holds no
\* white-space-delimited `>=` (a bare name, a name with ==, >, <=, < or !=,
\* or with a `>=` that touches the name or the version), the dependency's
\* name is the full text (trimmed) and its version is '*'.
C20_OtherOperatorsStayInName ==
  ppc = "returned" =>
    \A t \in PlainTexts \ GteDelimited :
      content = <<RequiresLine(<<Quote \o t \o Quote>>)>>
        => manifest.package.dependencies = <<Plain(Trim(t), Star)>>

\* `requires "nim == 1.0"` has been parsed
C20_Witness ==
  /\ ppc = "returned"
  /\ content = <<RequiresLine(<<Quote \o Nim \o Space \o <<"=", "=">> \o Space \o V10 \o Quote>>)>>
  /\ manifest.package.dependencies =
       <<Plain(Nim \o Space \o <<"=", "=">> \o Space \o V10, Star)>>

\* ------------------------------------------------------------------------
\* Assignments: inputs and specification
\* ------------------------------------------------------------------------

\* the line `key = value`
AssignLine(key, value) == key \o Space \o <<"=">> \o Space \o value

\* items.join(sep)
RECURSIVE JoinWith(_, _)
JoinWith(items, sep) ==
  IF Len(items) = 0 THEN <<>>
  ELSE IF Len(items) = 1 THEN items[1]
  ELSE items[1] \o sep \o JoinWith(Tail(items), sep)

\* every item in double quotes
Quoted(items) == [i \in 1..Len(items) |-> Quote \o items[i] \o Quote]

\* texts between the double quotes of a string literal
StringTexts ==
  {<<>>, Ab, V10, <<"a", " ", "b">>, <<"a", "\"", "b">>, <<"[", "]">>, Space \o Nim}

\* items of an array literal
ItemTexts == {Ab, Nim, V10, <<"a", " ", "b">>}

\* most items of an array literal
MaxItems == 2

\* string literals and what they stand for
StringCases == {[text |-> Quote \o t \o Quote, expected |-> StringValue(t)] : t \in StringTexts}

\* the two ways an array literal opens
ArrayOpenings == {<<"@", "[">>, <<"[">>}

\* array literals and what they stand for: quoted or bare items, with or
\* without white space behind the commas and inside the brackets
ListCases ==
  {[text |-> open \o pad \o JoinWith(IF q THEN Quoted(items) ELSE items, sep) \o pad \o <<"]">>,
    expected |-> ArrayValue(items)] :
     open \in ArrayOpenings, pad \in {<<>>, Space}, sep \in {<<",">>, <<",", " ">>},
     q \in BOOLEAN, items \in SeqFrom(ItemTexts, MaxItems)}
  \cup {[text |-> open \o pad \o <<"]">>, expected |-> ArrayValue(<<>>)] :
          open \in ArrayOpenings, pad \in {<<>>, Space}}

\* the entry key: val of a mapping
Pair(key, val) == [key |-> key, val |-> StringValue(val)]

\* mapping literals and what they stand for
ObjectCases ==
  {[text |-> <<"{", "}">>, expected |-> ObjectValue(<<>>)],
   [text |-> <<"{">> \o Ab \o <<":", " ">> \o Quote \o V10 \o Quote \o <<"}">>,
    expected |-> ObjectValue(<<Pair(Ab, V10)>>)],
   [text |-> <<"{">> \o Quote \o Ab \o Quote \o <<":", " ">> \o Quote \o Nim \o Quote
               \o <<",", " ">> \o Quote \o Nim \o Quote \o <<":">> \o Quote \o V10 \o Quote
               \o <<"}">>,
    expected |-> ObjectValue(<<Pair(Ab, Nim), Pair(Nim, V10)>>)]}

\* values that are no literal: bare words and numbers, unbalanced quotes
\* and brackets
OtherTexts ==
  {Ab, V10, V10 \o <<".", "0">>, Quote \o Ab, Ab \o Quote, Quote, <<"[">> \o Ab,
   Ab \o <<"]">>, <<"{">> \o Ab, Ab \o <<"}">>, <<"@">> \o Ab \o <<"]">>, <<"@">>,
   <<"a">> \o Quote \o <<"b">> \o Quote \o <<"c">>, <<"a", " ", "b">>}

\* values that open an `@[` array and do not close it
UnclosedTexts ==
  {<<"@", "[">>, <<"@", "[">> \o Ab, <<"@", "[">> \o Quote \o Ab \o Quote \o <<",", " ">> \o Nim}

\* the manifests of one assignment, one for every value above
LiteralTexts ==
  {c.text : c \in StringCases \cup ListCases \cup ObjectCases}
  \cup OtherTexts \cup UnclosedTexts
LiteralContents == {<<AssignLine(VersionKey, v)>> : v \in LiteralTexts}

\* assignments of manifests of several lines: a string, the same key
\* again, a raw value, the opening line of an array, and a description
\* with the word `requires` in it
Assignment(key, value) == [line |-> AssignLine(key, value), key |-> key, value |-> value]

Assignments ==
  {Assignment(VersionKey, Quote \o V10 \o Quote),
   Assignment(VersionKey, Quote \o <<"2">> \o Quote),
   Assignment(AuthorKey, Ab),
   Assignment(BinKey, <<"@", "[">> \o AbBare \o <<",">>),
   Assignment(DescriptionKey, Quote \o Ab \o Space \o RequiresWord \o Space \o Nim \o Quote)}

\* lines that continue the value of the assignment above them
ContinuationLines == {Quote \o Nim \o Quote \o <<"]">>, Space \o Ab}

\* the lines of a manifest of several lines
AssignmentLines ==
  {a.line : a \in Assignments} \cup ContinuationLines
  \cup {FeatureLine, RequiresLine(<<AbBare>>), BeginWord, EndWord}

FlushContents == SeqFrom(AssignmentLines, MaxLines)

\* a '#' and a word behind it
HashWord == <<"#">> \o Ab

\* requirements that hold a '#' between their quotes, with no complete
\* quoted text in front of it: "nim#ab", "nim >= 1.0 #ab", "#ab",
\* `https://h/r#ab`, " `https://h/r#ab` "
HashedRequirements ==
  {Quote \o Nim \o HashWord \o Quote,
   Quote \o Nim \o Space \o Gte \o Space \o V10 \o Space \o HashWord \o Quote,
   Quote \o HashWord \o Quote,
   Tick \o HttpsScheme \o <<"h", "/">> \o Repo \o HashWord \o Tick,
   Quote \o Space \o Tick \o HttpsScheme \o <<"h", "/">> \o Repo \o HashWord \o Tick
     \o Space \o Quote}

\* requirements in double quotes whose '#' stands behind a complete
\* backtick-quoted url: " `https://h/r` #ab", " `https://h/r` >= 1.0 #ab",
\* each with the dependency the url stands for
BehindUrlCases ==
  {[text |-> Quote \o Space \o Tick \o HttpsScheme \o <<"h", "/">> \o Repo \o Tick
               \o Space \o HashWord \o Quote,
    expected |-> [RepoDependency EXCEPT !.version = Star]],
   [text |-> Quote \o Space \o Tick \o HttpsScheme \o <<"h", "/">> \o Repo \o Tick
               \o Space \o Gte \o Space \o V10 \o Space \o HashWord \o Quote,
    expected |-> RepoDependency]}

\* the requirements in front of the one that holds the '#', and behind it
RequirementsBefore == {<<>>, <<AbBare>>, <<NimGte>>, <<AbBare, NimGte>>}
RequirementsBehind == {<<>>, <<AbBare>>}

\* the requires statement of the requirement h among the others
HashedLine(before, h, behind) == RequiresLine(before \o <<h>> \o behind)

\* manifests of one requires statement with a '#' inside a requirement
CommentContents ==
  {<<HashedLine(b, h, a)>> : b \in RequirementsBefore,
                             h \in HashedRequirements \cup {c.text : c \in BehindUrlCases},
                             a \in RequirementsBehind}

AssignContents == LiteralContents \cup FlushContents \cup CommentContents

NextAssign ==
  \/ \E text \in AssignContents : ParseContent(text)
  \/ LineBegin
  \/ LineEnd
  \/ LineRequires
  \/ LineFeature
  \/ LineKey
  \/ LineContinuation
  \/ Return

SpecAssign == InitParse /\ [][NextAssign]_vars

\* ------------------------------------------------------------------------
\* C21
\* ------------------------------------------------------------------------

\* `version = <text>` has been parsed and the manifest returned
Assigned(text) ==
  /\ ppc = "returned"
  /\ content = <<AssignLine(VersionKey, text)>>

\* the literals of the cases are parsed to what they stand for
ParsedAs(cases) ==
  \A c \in cases : Assigned(c.text) => manifest.package.version = c.expected

\* the values are passed through as raw strings
PassedThrough(texts) ==
  \A t \in texts : Assigned(t) => manifest.package.version = StringValue(t)

\* C21 as stated: a value in double quotes yields the text between the
\* quotes, a value @[...] or [...] yields the list of its comma-separated
\* items without quotes, in order, and any other value is returned unchanged
\* as a raw string.
C21_ValueLiteralParsed ==
  /\ ParsedAs(StringCases)
  /\ ParsedAs(ListCases)
  /\ PassedThrough(OtherTexts \cup UnclosedTexts \cup {c.text : c \in ObjectCases})

\* C21 as amended: a value in double quotes yields the text between the
\* quotes, a value @[...] or [...] yields the list of its comma-separated
\* items without quotes, in order, a value {...} yields the mapping of its
\* comma-separated key: value pairs, and any other value that does not
\* start with @[ is returned unchanged as a raw string.
C21_ValueLiteralOrMappingParsed ==
  /\ ParsedAs(StringCases)
  /\ ParsedAs(ListCases)
  /\ ParsedAs(ObjectCases)
  /\ PassedThrough(OtherTexts)

\* `version = @[ "ab", "a b" ]` has been parsed to the list of ab and a b
C21_Witness ==
  /\ Assigned(<<"@", "[", " ">> \o Quote \o Ab \o Quote \o <<",", " ">>
               \o Quote \o <<"a", " ", "b">> \o Quote \o <<" ", "]">>)
  /\ manifest.package.version = ArrayValue(<<Ab, <<"a", " ", "b">>>>)

\* ------------------------------------------------------------------------
\* PackageDeduper: inputs and specification
\* ------------------------------------------------------------------------

\* entries of a packages directory: foo at two versions, with two
\* checksums, without a checksum and at a pre-release; bar; the packages
\* nim-foo and nim-bar; a plain file and a directory of another tool
Foo1 == PkgEntry(<<"foo">>, <<"1.0.0">>, <<"abc">>, TRUE)
Foo1Def == PkgEntry(<<"foo">>, <<"1.0.0">>, <<"def">>, TRUE)
Foo2 == PkgEntry(<<"foo">>, <<"2.0.0">>, <<"abc">>, TRUE)
Foo2Bare == PkgEntry(<<"foo">>, <<"2.0.0">>, <<>>, TRUE)
Foo1Pre == PkgEntry(<<"foo">>, <<"1.0.0", "abc">>, <<"def">>, TRUE)
Bar1 == PkgEntry(<<"bar">>, <<"1.0.0">>, <<"abc">>, TRUE)
NimFoo1 == PkgEntry(<<"nim", "foo">>, <<"1.0.0">>, <<"abc">>, TRUE)
NimBar2 == PkgEntry(<<"nim", "bar">>, <<"2.0.0">>, <<"abc">>, TRUE)
PlainFile == PkgEntry(<<"foo">>, <<"2.0.0">>, <<"tgz">>, FALSE)
OtherDir == PkgEntry(<<"tmp">>, <<>>, <<>>, TRUE)

PkgEntries ==
  {Foo1, Foo1Def, Foo2, Foo2Bare, Foo1Pre, Bar1, NimFoo1, NimBar2, PlainFile, OtherDir}

\* most entries of a packages directory
MaxEntries == 3

\* the packages directories: entries with different names, in any order
PkgListings ==
  {dir \in SeqUpTo(PkgEntries, MaxEntries) :
     \A i, j \in 1..Len(dir) : i # j => EntryName(dir[i]) # EntryName(dir[j])}

\* what Bun.semver.order may do with a text that is no version
InvalidOutcomes ==
  {[threw |-> TRUE, order |-> 0]} \cup {[threw |-> FALSE, order |-> o] : o \in -1..1}

NextDedupe ==
  \/ \E dir \in PkgListings, dry \in BOOLEAN, invalid \in InvalidOutcomes :
       \E limit \in 0..Len(dir) : Dedupe(dir, dry, limit, invalid)
  \/ Remove
  \/ RemoveFails

SpecDedupe == InitParse /\ [][NextDedupe]_vars

\* ------------------------------------------------------------------------
\* C22
\* ------------------------------------------------------------------------

\* the directories the installer made
Installed(dir) == {dir[i] : i \in {j \in 1..Len(dir) : dir[j].isDirectory /\ dir[j].version # <<>>}}

\* the directories of package `name`
DirsOf(dir, name) == {e \in Installed(dir) : e.name = name}

\* the semantic-version rank of a directory's version
VersionRank(e) ==
  SemverRank(IF e.version = <<"1.0.0", "abc">> THEN "1.0.0-abc" ELSE e.version[1])

\* the directories scanPackages takes for packages
Scanned(dir) ==
  {dir[i] : i \in {j \in 1..Len(dir) : dir[j].isDirectory /\ DirMatch(EntryName(dir[j])) # <<>>}}

Paths(infos) == {infos[i].path : i \in 1..Len(infos)}

\* a dedupe that was no dry run has returned, its scan and every removal
\* having succeeded
Deduped == dpc = "done" /\ ~dryRun /\ ~scanFailed /\ ~removeFailed

\* C22: after a non-dry-run dedupe in which every removal succeeds, every
\* installed package has exactly one directory left, of the highest version
\* among its directories before the run; the kept and the removed
\* directories partition the scanned ones; a package with one directory
\* keeps it.
C22_HighestVersionKept ==
  Deduped =>
    /\ \A e \in Installed(listing) :
         /\ Cardinality(DirsOf(pkgDir, e.name)) = 1
         /\ \A left \in DirsOf(pkgDir, e.name) : VersionRank(left) >= VersionRank(e)
         /\ Cardinality(DirsOf(listing, e.name)) = 1 => e \in Installed(pkgDir)
    /\ Paths(toKeep) \cup Paths(toRemove) = Scanned(listing)
    /\ Paths(toKeep) \cap Paths(toRemove) = {}

\* ------------------------------------------------------------------------
\* C23
\* ------------------------------------------------------------------------

\* C23: dedupe with dryRun = true leaves the packages directory as it was
\* when dedupe was called: no directory is removed, whatever is installed
\* and however the run ends.
C23_DryRunRemovesNothing ==
  dryRun => pkgDir = listing /\ dpc # "removing"

\* a dry run has returned that found a directory to remove
C23_Witness ==
  /\ dryRun
  /\ dpc = "done"
  /\ Len(toRemove) > 0
  /\ toRemove[1].path \in Installed(pkgDir)

\* ------------------------------------------------------------------------
\* calculateDirSha1Checksum: inputs and specification
\* ------------------------------------------------------------------------

\* names of files and directories
FileF == <<"f">>
FileG == <<"g">>
Subdir == <<"s", "u", "b", "d", "i", "r">>
Lib == <<"l", "i", "b">>
Build == <<"b", "u", "i", "l", "d">>
DotDir == <<".", "x">>

\* files with one of two contents
ChangingPaths == {<<FileF>>, <<Subdir, FileF>>, <<Lib, Subdir, FileF>>}

\* files with one content: in a directory, in an ignored directory, in a
\* directory whose name starts with '.', and a file named like a directory
FixedPaths ==
  {<<FileG>>, <<Subdir, FileG>>, <<Lib, FileF>>, <<Build, FileF>>, <<DotDir, FileF>>,
   <<Subdir>>}

FileNodes ==
  {FileNode(p, "file", c) : p \in ChangingPaths, c \in {<<"1">>, <<"2">>}}
  \cup {FileNode(p, "file", <<"1">>) : p \in FixedPaths}
  \cup {FileNode(<<Lib, FileG>>, "symlink", FileF)}

\* most files of a directory tree
MaxFiles == 3

\* the sets of at most n elements of S
RECURSIVE SetsUpTo(_, _)
SetsUpTo(S, n) ==
  IF n = 0 THEN {{}}
  ELSE LET smaller == SetsUpTo(S, n - 1)
       IN smaller \cup {s \cup {x} : s \in smaller, x \in S}

Trees == {files \in SetsUpTo(FileNodes, MaxFiles) : WellFormed(files)}

SkipLists == {{}, {Subdir}, {Lib}, {Subdir, Build}}

NextChecksum ==
  \/ \E files \in Trees, skip \in SkipLists : Calculate(files, skip)
  \/ \E file \in FileNodes : WriteFile(file)
  \/ \E file \in FileNodes : RemoveFile(file)
  \/ Recalculate

SpecChecksum == InitParse /\ [][NextChecksum]_vars

\* ------------------------------------------------------------------------
\* C24
\* ------------------------------------------------------------------------

\* the path lies beneath a directory with one of the names
BeneathNamed(path, names) == \E i \in 1..(Len(path) - 1) : path[i] \in names

\* the directory names shouldIgnoreDirectory rejects
IgnoredNames == {Build, DotDir}

\* the file's relative path and content are among the hashed bytes, one
\* after the other
Contributes(file, hashed) == Includes(hashed, PathText(file.path) \o file.content)

\* an edit beneath a skipped directory leaves the checksum as it was
SkippedEditsUnseen ==
  cpc = "done" /\ BeneathNamed(edited, skipDirs) => secondSum = firstSum

\* the files beneath skipped directories are not in the hashed file list
SkippedFilesUnlisted ==
  \A f \in firstFs :
    BeneathNamed(f.path, skipDirs) => f.path \notin GetPackageFileList(firstFs, <<>>, skipDirs)

AssignmentOf(line) == {a \in Assignments : a.line = line}

\* the pending assignment is stored under its key
Store(st) ==
  IF st.key = <<>> THEN st.stored
  ELSE MapSet(st.stored, st.key, ParseValue(Trim(JoinSpace(st.pending))))

\* what the lines assign: an assignment line stores the pending assignment
\* and starts its own, a feature header stores the pending assignment, and
\* a continuation line is joined to the pending assignment
RECURSIVE Assigns(_, _)
Assigns(text, st) ==
  IF Len(text) = 0 THEN Store(st)
  ELSE LET line == text[1]
       IN IF AssignmentOf(line) # {}
          THEN LET a == CHOOSE x \in AssignmentOf(line) : TRUE
               IN Assigns(Tail(text), [stored |-> Store(st), key |-> a.key, pending |-> <<a.value>>])
          ELSE IF line = FeatureLine
          THEN Assigns(Tail(text), [stored |-> Store(st), key |-> <<>>, pending |-> <<>>])
          ELSE IF line \in ContinuationLines /\ st.key # <<>>
          THEN Assigns(Tail(text), [st EXCEPT !.pending = Append(@, Trim(line))])
          ELSE Assigns(Tail(text), st)

\* C25: every `key = value` assignment in front of the `end` line is
\* flushed into the result, when the next assignment starts, when a feature
\* header starts and at the end of the input: after the loop every assigned
\* key maps to the parsed literal of its last assignment joined with its
\* continuation lines, and no assignment is lost.
C25_EveryAssignmentFlushed ==
  ppc = "returned" /\ content \in FlushContents =>
    result = Assigns(BeforeEnd(content), [stored |-> EmptyMap, key |-> <<>>, pending |-> <<>>])

\* ------------------------------------------------------------------------
\* install: inputs and specification
\* ------------------------------------------------------------------------

\* the dependency graphs: every package requires some of the others
Graphs == {g \in [Pkgs -> SUBSET Pkgs] : \A p \in Pkgs : p \notin g[p]}

NextInstall ==
  \/ \E root \in Pkgs, manifests \in Graphs, dirs \in SUBSET Pkgs :
       root \notin dirs /\ Install(root, manifests, dirs)
  \/ Download
  \/ DownloadFails
  \/ \E caught \in BOOLEAN : Throw(caught)
  \/ InstallDependency
  \/ SkipInstalled
  \/ FinishInstall

SpecInstall == InitParse /\ [][NextInstall]_vars

\* ------------------------------------------------------------------------
\* C26
\* ------------------------------------------------------------------------

\* C26: installing a package terminates for every dependency graph, also
\* when packages that are not installed require each other in a cycle,
\* because no package is downloaded twice within one run: no package is
\* downloaded a second time, and the recursion never enters a package
\* whose own installation is still in progress (a call that does finds the
\* directories and the manifests its outer call found, and recurses as
\* that one did, without end).
C26_InstallTerminates ==
  /\ \A p \in Pkgs : downloads[p] <= 1
  /\ \A i, j \in 1..Len(stack) : i # j => stack[i].pkg # stack[j].pkg

\* ------------------------------------------------------------------------
\* C27
\* ------------------------------------------------------------------------

\* a kept directory is of the package of directory e, at its version or a
\* higher one
CoveredByKept(e) ==
  \E k \in Paths(toKeep) : k.name = e.name /\ VersionRank(k) >= VersionRank(e)

\* C27: dedupe removes a directory only when a kept directory is of the
\* same package at an equal or higher version, also for package names with
\* a '-' in them: the directories marked for removal and the directories
\* removed are covered by a kept directory of their own package, so
\* directories of different packages are never duplicates of each other.
C27_OnlyDuplicatesRemoved ==
  /\ \A e \in Paths(toRemove) : CoveredByKept(e)
  /\ \A e \in Installed(listing) \ Installed(pkgDir) : CoveredByKept(e)

\* ------------------------------------------------------------------------
\* C28
\* ------------------------------------------------------------------------

\* the statement of the requirement h yielded the dependencies of the
\* requirements in front of h, then deps, and nothing of those behind h
CutAt(h, deps) ==
  \A b \in RequirementsBefore, a \in RequirementsBehind :
    content = <<HashedLine(b, h, a)>>
      => manifest.package.dependencies = ExpectedList(b) \o deps

\* C28 as stated: a '#' inside a double-quoted or backtick-quoted
\* requirement starts a comment: the requirement that holds it contributes
\* no dependency, every requirement behind it on the line is dropped, and
\* the requirements in front of it are kept.
C28_HashInQuotesCutsLine ==
  ppc = "returned" =>
    \A h \in HashedRequirements \cup {c.text : c \in BehindUrlCases} : CutAt(h, <<>>)

\* C28 as amended: a '#' inside a double-quoted or backtick-quoted
\* requirement starts a comment: every requirement behind it on the line is
\* dropped and the requirements in front of it are kept; the requirement
\* that holds it contributes no dependency, unless a complete
\* backtick-quoted text stands in front of the '#' inside the double
\* quotes, which is then still taken as the requirement.
C28_HashInQuotesCutsLineUnlessBehindUrl ==
  ppc = "returned" =>
    /\ \A h \in HashedRequirements : CutAt(h, <<>>)
    /\ \A c \in BehindUrlCases : CutAt(c.text, <<c.expected>>)

\* `requires "ab", "nim#ab", "ab"` has been parsed into the one dependency ab
C28_Witness ==
  /\ ppc = "returned"
  /\ content = <<HashedLine(<<AbBare>>, Quote \o Nim \o HashWord \o Quote, <<AbBare>>)>>
  /\ manifest.package.dependencies = <<Plain(Ab, Star)>>

\* ------------------------------------------------------------------------
\* C29
\* ------------------------------------------------------------------------

\* the one candidate candidate discovery yields for a package name
OnlyCandidate(name) ==
  IF GetLocalPackageVersion(name) # Null THEN GetLocalPackageVersion(name) ELSE "0.0.0"

\* the variable allocated for the one candidate of a package
VariableOf(name) == variableMap[Key(name, OnlyCandidate(name))]

\* the requirements of a manifest that take part in the encoding
RequiredNames(r) == {pkg[r][i].name : i \in 1..Len(pkg[r])}

\* C29: the clause set resolve() hands to the solver is satisfiable for
\* every manifest and every collaborator response, and the
\* unsatisfiable-constraints error is never raised: every package name has
\* exactly one candidate (the locally found version or '0.0.0'), the
\* clauses of the packages are the unit clauses of their variables, in
\* order, and every clause behind them is the unit clause of the variable
\* of a required package.
C29_ClauseSetSatisfiable ==
  \A r \in Runs :
    /\ thrown[r] # "ResolutionError"
    /\ pc[r] # "failed"
    /\ (Latest(r) /\ PastEncode(r)) =>
         /\ SatSolve(numVars[r], clauses[r]) # {}
         /\ \A i \in 1..Len(allDeps[r]) :
              /\ allDeps[r][i].versions = <<OnlyCandidate(allDeps[r][i].name)>>
              /\ clauses[r][i] = <<VariableOf(allDeps[r][i].name)>>
         /\ \A k \in (Len(allDeps[r]) + 1)..Len(clauses[r]) :
              \E name \in RequiredNames(r) \ {"nim"} : clauses[r][k] = <<VariableOf(name)>>

\* C29 witness: the solver was handed the unit clause of a package and the
\* clause of a requirement on it, and a requirement that no candidate
\* matches was left out
C29_Witness ==
  \E r \in Runs :
    /\ Latest(r) /\ pc[r] = "done" /\ solverCalls[r] = 1
    /\ Len(clauses[r]) > Len(allDeps[r])
    /\ \E i \in 1..Len(pkg[r]) :
         /\ pkg[r][i].name # "nim"
         /\ ~SemverSatisfies(OnlyCandidate(pkg[r][i].name), pkg[r][i].version)
         /\ pkg[r][i].version \notin {"*", ""}

\* ------------------------------------------------------------------------
\* GitHubClient: inputs and specification
\* ------------------------------------------------------------------------

ClientUrls == {GitHubUrl("u", "foo"), GitHubUrl("u", "bar"), GitHubUrl("v", "foo"), OtherUrl}

\* fetch() was rejected: a network failure
Rejected == [rejected |-> TRUE, status |-> 0, body |-> Null]

\* what the API may answer: nothing, 200 with a body that is no JSON, that
\* names no default branch, that names main or dev, or another status
ApiResponses ==
  {Rejected}
  \cup {[rejected |-> FALSE, status |-> 200, body |-> b] : b \in {Null, "", "main", "dev"}}
  \cup {[rejected |-> FALSE, status |-> s, body |-> Null] : s \in {403, 404, 500}}

\* the files of a repository, and the skipDirs of its manifest
RepoTrees ==
  {{FileNode(<<FileF>>, "file", <<"1">>)},
   {FileNode(<<FileF>>, "file", <<"1">>), FileNode(<<Subdir, FileF>>, "file", <<"1">>)}}

RepoSkipDirs == {{}, {Subdir}}

Archives ==
  {[top |-> t, files |-> f, skipDirs |-> k] :
     t \in {"main", "dev"}, f \in RepoTrees, k \in RepoSkipDirs}

\* what the archive request may yield: nothing, 404, or an archive
ArchiveResponses ==
  {Rejected, [rejected |-> FALSE, status |-> 404, body |-> Null]}
  \cup {[rejected |-> FALSE, status |-> 200, body |-> a] : a \in Archives}

\* what git.clone may yield: a rejection, or the clone
Clones ==
  {[rejected |-> TRUE, files |-> {}, skipDirs |-> {}]}
  \cup {[rejected |-> FALSE, files |-> f, skipDirs |-> k] : f \in RepoTrees, k \in RepoSkipDirs}

NextClient ==
  \/ \E url \in ClientUrls, git \in BOOLEAN : DownloadPackage(url, git)
  \/ \E cloned \in Clones : CloneWithGit(cloned)
  \/ \E response \in ApiResponses : DefaultBranchAnswered(response)
  \/ \E response \in ArchiveResponses : ArchiveAnswered(response)

SpecClient == InitParse /\ [][NextClient]_vars

\* ------------------------------------------------------------------------
\* C30
\* ------------------------------------------------------------------------

\* the API has answered the default-branch lookup, or the lookup failed
Answered == apiResponse # NoResponse

\* an archive was requested
ArchiveRequested == Len(requests) > 1

\* C30: when the GitHub API answers 403 to the default-branch lookup, the
\* download fails with the rate-limit error and no archive is requested;
\* for any other status that is not OK and for a network failure the lookup
\* yields branch 'main' and the archive of main is requested.
C30_RateLimitStopsDownload ==
  Answered =>
    IF ~apiResponse.rejected /\ apiResponse.status = 403
    THEN gpc = "failed" /\ clientThrown = "RateLimitError" /\ ~ArchiveRequested
    ELSE (apiResponse.rejected \/ ~ResponseOk(apiResponse)) =>
           /\ defaultBranch = "main"
           /\ ArchiveRequested
           /\ requests[2] = ArchiveUrl(repoUrl[2], repoUrl[3], "main")

============================================================================
